---- MODULE Spec2Model ----
(***************************************************************************)
(* ExamBoard-api: the allocation capacity ledger of apps/exams/models.py.  *)
(* ExamAllocation.save() locks the overlapping rows, runs full_clean()     *)
(* (term window, blackout, holiday, capacity sweep) and writes the row.    *)
(*                                                                         *)
(* Instants are whole minutes since 00:00 UTC of day 0; dates are day      *)
(* numbers.  Every instant the model uses is a multiple of thirty minutes, *)
(* so "one microsecond earlier" and "one minute earlier" fall on the same  *)
(* calendar date; Resolution is that smallest step.                        *)
(***************************************************************************)
EXTENDS Integers, Sequences, FiniteSets, TLC

VARIABLES
    allocations,  \* persisted ExamAllocation rows (committed state of the table)
    rooms,        \* room -> capacity
    terms,        \* term id -> [start_date, end_date, is_published]
    exams,        \* exam id -> term id
    blackouts,    \* persisted BlackoutWindow rows
    holidays,     \* persisted Holiday rows
    nextPk,       \* next value of the allocation primary-key sequence
    txn,          \* per writer: the save() call in progress
    lastClean,    \* the last direct ExamAllocation.clean() call and its outcome
    termLog,      \* the last Term update and the locked values at publication
    heatmap,      \* the last capacity_heatmap request and its response
    conn,         \* per writer: the transaction enclosing its save(), if any
    api,          \* the last request to the REST API and its response
    owners        \* exam id -> Exam.owner (a user name)

vars == <<allocations, rooms, terms, exams, blackouts, holidays, nextPk, txn, lastClean,
         termLog, heatmap, conn, api, owners>>

----------------------------------------------------------------------------
(* Calendar                                                                *)

MinutesPerDay == 24 * 60
\* settings.TIME_ZONE = "Asia/Tehran": UTC+03:30, no daylight saving.
TzOffset == (3 * 60) + 30
\* dt.timedelta(microseconds=1), the smallest step of an instant.
Resolution == 1

At(day, hh, mm) == (day * MinutesPerDay) + (hh * 60) + mm

\* timezone.localtime(value): the wall clock of the configured zone.
localtime(t) == t + TzOffset

\* datetime.date() of a local wall-clock value.
date(local) == local \div MinutesPerDay

\* first instant (UTC minutes) of local calendar day d
LocalMidnight(d) == (d * MinutesPerDay) - TzOffset

----------------------------------------------------------------------------
(* Rows                                                                    *)

\* self.pk of an instance that was never saved (None): `if self.pk` is false.
NoPk == 0
\* BlackoutWindow.room = NULL: the window applies to every room.
NoRoom == "NULL"

Row(pk, exam, room, s, e, seats) ==
    [pk |-> pk, exam |-> exam, room |-> room,
     start_at |-> s, end_at |-> e, allocated_seats |-> seats]

Err(field, code) == [field |-> field, code |-> code]

TermWindowViolation == Err("start_at", "term")
BlackoutViolation == Err("start_at", "blackout")
HolidayViolation == Err("start_at", "holiday")
CapacityViolation == Err("allocated_seats", "capacity")
MinValueViolation == Err("allocated_seats", "min_value")
ConstraintViolation == Err("__all__", "exam_allocation_start_before_end")

----------------------------------------------------------------------------
(* Validation helpers of ExamAllocation                                    *)

\* _validate_term_window: the local dates of start_at and of end_at minus one
\* microsecond must lie in [term.start_date, term.end_date].
_validate_term_window_utc(self, trm) ==
    IF date(self.start_at) < trm.start_date
       \/ date(self.end_at - Resolution) > trm.end_date
    THEN {TermWindowViolation} ELSE {}

_validate_term_window(self, trm) ==
    LET local_start == localtime(self.start_at)
        local_end == localtime(self.end_at)
        inclusive_end == local_end - Resolution
    IN  IF date(local_start) < trm.start_date \/ date(inclusive_end) > trm.end_date
        THEN {TermWindowViolation} ELSE {}

\* _validate_blackouts: a window of the same room or of no room whose
\* interval strictly overlaps the candidate's.
_validate_blackouts_inclusive(self, bws) ==
    LET overlapping_blackouts ==
            {b \in bws : /\ (b.room = self.room \/ b.room = NoRoom)
                         /\ b.start_at <= self.end_at
                         /\ b.end_at >= self.start_at}
    IN  IF overlapping_blackouts # {} THEN {BlackoutViolation} ELSE {}

_validate_blackouts(self, bws) ==
    LET overlapping_blackouts ==
            {b \in bws : /\ (b.room = self.room \/ b.room = NoRoom)
                         /\ b.start_at < self.end_at
                         /\ b.end_at > self.start_at}
    IN  IF overlapping_blackouts # {} THEN {BlackoutViolation} ELSE {}

\* _validate_holidays with the exclusive end taken as the last moment
_validate_holidays_exclusive_end(self, hds) ==
    LET start_date == date(localtime(self.start_at))
        end_date == date(localtime(self.end_at))
    IN  IF \E h \in hds : h.start_date <= end_date /\ h.end_date >= start_date
        THEN {HolidayViolation} ELSE {}

\* _validate_holidays: a holiday whose inclusive date range meets the
\* candidate's local date span.
_validate_holidays(self, hds) ==
    LET local_start == localtime(self.start_at)
        local_end == localtime(self.end_at)
        inclusive_end == local_end - Resolution
        start_date == date(local_start)
        end_date == date(inclusive_end)
        holiday_exists ==
            \E h \in hds : h.start_date <= end_date /\ h.end_date >= start_date
    IN  IF holiday_exists THEN {HolidayViolation} ELSE {}

----------------------------------------------------------------------------
(* Capacity sweep                                                          *)

\* A queryset of ExamAllocation is returned in Meta.ordering = ("start_at",);
\* rows with equal start_at are listed by primary key here.
RECURSIVE OrderedRows(_)
OrderedRows(S) ==
    IF S = {} THEN <<>>
    ELSE LET first == CHOOSE a \in S : \A b \in S :
                          \/ a.start_at < b.start_at
                          \/ (a.start_at = b.start_at /\ a.pk <= b.pk)
         IN  <<first>> \o OrderedRows(S \ {first})

Event(timestamp, delta) == [timestamp |-> timestamp, delta |-> delta]

\* the loop of _validate_capacity that appends an arrival and a departure
\* for every overlapping allocation
RECURSIVE AllocationEvents(_)
AllocationEvents(list) ==
    IF list = <<>> THEN <<>>
    ELSE <<Event(Head(list).start_at, Head(list).allocated_seats),
           Event(Head(list).end_at, 0 - Head(list).allocated_seats)>>
         \o AllocationEvents(Tail(list))

\* sort_key with the tie-break reversed: arrivals before departures
sort_key_arrivals_first(event) ==
    <<event.timestamp, IF event.delta < 0 THEN 1 ELSE 0>>

\* sort_key without the tie-break: equal timestamps keep their list order
sort_key_timestamp_only(event) == <<event.timestamp, 0>>

\* sort_key: departures before arrivals when timestamps match
sort_key(event) ==
    <<event.timestamp, IF event.delta < 0 THEN 0 ELSE 1>>

KeyLess(k1, k2) == k1[1] < k2[1] \/ (k1[1] = k2[1] /\ k1[2] < k2[2])

RECURSIVE InsertByKey(_, _)
InsertByKey(e, s) ==
    IF s = <<>> THEN <<e>>
    ELSE IF KeyLess(sort_key(e), sort_key(Head(s))) THEN <<e>> \o s
         ELSE <<Head(s)>> \o InsertByKey(e, Tail(s))

\* sorted(events, key=sort_key): a stable sort
RECURSIVE sorted(_)
sorted(events) ==
    IF events = <<>> THEN <<>>
    ELSE InsertByKey(events[Len(events)], sorted(SubSeq(events, 1, Len(events) - 1)))

\* `current_load > room_capacity` written as >=
Exceeds_ge(current_load, room_capacity) == current_load >= room_capacity

Exceeds(current_load, room_capacity) == current_load > room_capacity

\* the sweep loop: TRUE when some running load exceeds the capacity
RECURSIVE SweepRaises(_, _, _)
SweepRaises(events, current_load, room_capacity) ==
    IF events = <<>> THEN FALSE
    ELSE LET load == current_load + Head(events).delta
         IN  IF Exceeds(load, room_capacity) THEN TRUE
             ELSE SweepRaises(Tail(events), load, room_capacity)

\* The instance attribute _locked_overlaps: absent, or the list save() read.
NoAttr == [present |-> FALSE, rows |-> <<>>]
Attr(list) == [present |-> TRUE, rows |-> list]

\* _get_overlapping_allocations that ignores _locked_overlaps and always
\* queries the table
_get_overlapping_allocations_fresh(self, attr, tbl) ==
    LET qs == {a \in tbl : /\ a.room = self.room
                           /\ a.start_at < self.end_at
                           /\ a.end_at > self.start_at}
    IN  OrderedRows(IF self.pk # NoPk
                    THEN {a \in qs : a.pk # self.pk} ELSE qs)

\* _get_overlapping_allocations: the locked list when save() set it, else a
\* fresh query of the table.
_get_overlapping_allocations(self, attr, tbl) ==
    IF attr.present THEN attr.rows
    ELSE LET qs == {a \in tbl : /\ a.room = self.room
                                /\ a.start_at < self.end_at
                                /\ a.end_at > self.start_at}
         IN  OrderedRows(IF self.pk # NoPk
                         THEN {a \in qs : a.pk # self.pk} ELSE qs)

_validate_capacity(self, attr, tbl, room_capacity) ==
    LET overlapping_allocations == _get_overlapping_allocations(self, attr, tbl)
        events == AllocationEvents(overlapping_allocations)
                  \o <<Event(self.start_at, self.allocated_seats),
                       Event(self.end_at, 0 - self.allocated_seats)>>
    IN  IF SweepRaises(sorted(events), 0, room_capacity)
        THEN {CapacityViolation} ELSE {}

----------------------------------------------------------------------------
(* clean() and full_clean()                                                *)

\* What the checks read from the database.
Db(tbl, rms, trms, exms, bws, hds) ==
    [allocations |-> tbl, rooms |-> rms, terms |-> trms, exams |-> exms,
     blackouts |-> bws, holidays |-> hds]

CurrentDb == Db(allocations, rooms, terms, exams, blackouts, holidays)

TermOf(self, db) == db.terms[db.exams[self.exam]]

Outcome(raised, evaluated) == [raised |-> raised, evaluated |-> evaluated]

\* clean() with the capacity check moved to the front
clean_capacity_first(self, attr, db) ==
    LET c == _validate_capacity(self, attr, db.allocations, db.rooms[self.room])
        t == _validate_term_window(self, TermOf(self, db))
        b == _validate_blackouts(self, db.blackouts)
        h == _validate_holidays(self, db.holidays)
    IN  IF c # {} THEN Outcome(c, <<"capacity">>)
        ELSE IF t # {} THEN Outcome(t, <<"capacity", "term">>)
        ELSE IF b # {} THEN Outcome(b, <<"capacity", "term", "blackout">>)
        ELSE Outcome(h, <<"capacity", "term", "blackout", "holiday">>)

\* clean(): the four checks in order; the first that raises ends the call.
\* Every candidate of the model has exam, room, start_at and end_at set, so
\* the early return of line 157 is never taken.
clean(self, attr, db) ==
    LET t == _validate_term_window(self, TermOf(self, db))
    IN  IF t # {} THEN Outcome(t, <<"term">>)
        ELSE
        LET b == _validate_blackouts(self, db.blackouts)
        IN  IF b # {} THEN Outcome(b, <<"term", "blackout">>)
            ELSE
            LET h == _validate_holidays(self, db.holidays)
            IN  IF h # {} THEN Outcome(h, <<"term", "blackout", "holiday">>)
                ELSE
                LET c == _validate_capacity(self, attr, db.allocations,
                                            db.rooms[self.room])
                IN  Outcome(c, <<"term", "blackout", "holiday", "capacity">>)

\* clean_fields with the validator taken as MinValueValidator(0)
clean_fields_min_zero(self) ==
    IF self.allocated_seats < 0 THEN {MinValueViolation} ELSE {}

\* Model.clean_fields(): allocated_seats carries MinValueValidator(1).
clean_fields(self) ==
    IF self.allocated_seats < 1 THEN {MinValueViolation} ELSE {}

\* Model.validate_constraints(): the CheckConstraint start_at < end_at, skipped
\* when one of its fields already failed validation.
validate_constraints(self, errors) ==
    LET exclude == {e.field : e \in errors}
    IN  IF /\ "start_at" \notin exclude
           /\ "end_at" \notin exclude
           /\ ~(self.start_at < self.end_at)
        THEN {ConstraintViolation} ELSE {}

\* Model.full_clean(): clean_fields, clean, validate_constraints; the errors
\* of all three are collected and raised together.
full_clean(self, attr, db) ==
    LET errors == clean_fields(self) \cup clean(self, attr, db).raised
    IN  errors \cup validate_constraints(self, errors)

----------------------------------------------------------------------------
(* Fixtures and input domains                                              *)

\* number of concurrent writers
NumTxns == 2
\* the primary-key sequence stops after this many inserts
MaxAllocs == 2

Txns == 1 .. NumTxns

Rooms == {"Auditorium", "MainHall"}
\* Room.capacity of the two fixture rooms
FixtureCapacity(room) == IF room = "Auditorium" THEN 100 ELSE 120

ExamIds == {"MATH201"}
TermIds == {"1403-SPR"}
Term(start_date, end_date, is_published) ==
    [start_date |-> start_date, end_date |-> end_date, is_published |-> is_published]

\* the term of the fixtures covers local days 1 and 2
FixtureTerm == Term(1, 2, TRUE)

\* what save() is asked to store: three slots of day 1 (two of them back to
\* back), an inverted slot and a slot after the end of the term
SaveIntervals ==
    { <<At(1, 8, 0), At(1, 9, 0)>>, <<At(1, 9, 0), At(1, 10, 0)>>,
      <<At(1, 8, 0), At(1, 10, 0)>>, <<At(1, 10, 0), At(1, 9, 0)>>,
      <<At(3, 8, 0), At(3, 10, 0)>> }
SaveSeats == {50, 60}

\* concurrent writers all book the Auditorium on day 1
ConcurrentIntervals ==
    { <<At(1, 8, 0), At(1, 9, 0)>>, <<At(1, 9, 0), At(1, 10, 0)>>,
      <<At(1, 8, 0), At(1, 10, 0)>> }

Candidates(pks, rms, intervals, seats) ==
    { Row(pk, exam, room, iv[1], iv[2], n) :
        pk \in pks, exam \in ExamIds, room \in rms, iv \in intervals, n \in seats }

----------------------------------------------------------------------------
(* ExamAllocation.save() as a transaction                                  *)

\* save() is not inside an enclosing atomic block: its own block is the
\* transaction.  Inside one, its block is a savepoint: rows it locked stay
\* locked (held) and the row it wrote stays uncommitted (pending) until the
\* enclosing block ends.  aborted counts the caller's failed attempts.
NoOuter == [open |-> FALSE, held |-> {}, pending |-> {}, aborted |-> 0]

Idle == [pc |-> "idle", self |-> Row(NoPk, "MATH201", "Auditorium", 0, 0, 0),
         locked |-> NoAttr, errors |-> {}]

\* rows on which writer p holds a SELECT ... FOR UPDATE lock
LockedBy(p) ==
    conn[p].held \cup
    ( IF txn[p].pc \in {"locking", "locked", "valid"}
      THEN {txn[p].locked.rows[i].pk : i \in 1 .. Len(txn[p].locked.rows)}
      ELSE {} )

LockedByOthers(p) == UNION {LockedBy(q) : q \in Txns \ {p}}

\* the filter of overlap_qs with self.start_at where self.end_at belongs
overlap_qs_typo(self, tbl) ==
    LET qs == {a \in tbl : /\ a.room = self.room
                           /\ a.start_at < self.start_at
                           /\ a.end_at > self.start_at}
    IN  IF self.pk # NoPk THEN {a \in qs : a.pk # self.pk} ELSE qs

\* overlap_qs without the exclusion of the instance's own row
overlap_qs_with_self(self, tbl) ==
    {a \in tbl : /\ a.room = self.room
                 /\ a.start_at < self.end_at
                 /\ a.end_at > self.start_at}

\* overlap_qs of save(): same room, strictly overlapping, not the row itself
overlap_qs(self, tbl) ==
    LET qs == {a \in tbl : /\ a.room = self.room
                           /\ a.start_at < self.end_at
                           /\ a.end_at > self.start_at}
    IN  IF self.pk # NoPk THEN {a \in qs : a.pk # self.pk} ELSE qs

\* super().save() without the update: the row is inserted beside the old one
super_save_insert_only(tbl, row) == tbl \cup {row}

\* super().save(): insert the row, or replace the row of the same pk
super_save(tbl, row) == {a \in tbl : a.pk # row.pk} \cup {row}

\* save() is entered with a new instance or with a stored row whose fields
\* were overwritten; transaction.atomic() opens.
SaveBegin(p, self) ==
    /\ txn[p].pc = "idle"
    /\ self.pk = NoPk \/ \E a \in allocations : a.pk = self.pk
    /\ txn' = [txn EXCEPT ![p] = [pc |-> "atomic", self |-> self,
                                  locked |-> NoAttr, errors |-> {}]]
    /\ UNCHANGED <<api, owners, allocations, rooms, terms, exams, blackouts, holidays,
                   nextPk, lastClean, termLog, heatmap, conn>>

\* list(overlap_qs) under select_for_update(): waits while another writer
\* holds one of the rows, then locks and returns the matching rows.
LockOverlaps(p) ==
    /\ txn[p].pc = "atomic"
    /\ LET qs == overlap_qs(txn[p].self, allocations)
       IN  /\ {a.pk : a \in qs} \cap LockedByOthers(p) = {}
           /\ txn' = [txn EXCEPT ![p].pc = "locked",
                                 ![p].locked = Attr(OrderedRows(qs))]
    /\ UNCHANGED <<api, owners, allocations, rooms, terms, exams, blackouts, holidays,
                   nextPk, lastClean, termLog, heatmap, conn>>

\* self.full_clean(): on errors the exception leaves the atomic block (the
\* transaction rolls back, the locks go) and `finally` removes the attribute.
FullClean(p) ==
    /\ txn[p].pc = "locked"
    /\ LET errors == full_clean(txn[p].self, txn[p].locked, CurrentDb)
       IN  txn' = [txn EXCEPT ![p] =
                     IF errors = {}
                     THEN [@ EXCEPT !.pc = "valid"]
                     ELSE [@ EXCEPT !.pc = "done", !.errors = errors,
                                    !.locked = NoAttr]]
    /\ UNCHANGED <<api, owners, allocations, rooms, terms, exams, blackouts, holidays,
                   nextPk, lastClean, termLog, heatmap, conn>>

\* super().save() and the commit at the end of the atomic block.  An UPDATE
\* of a row that another writer locked waits for that writer.
Write(p) ==
    /\ txn[p].pc = "valid"
    /\ ~conn[p].open
    /\ txn[p].self.pk \notin LockedByOthers(p)
    /\ LET pk == IF txn[p].self.pk = NoPk THEN nextPk ELSE txn[p].self.pk
           row == [txn[p].self EXCEPT !.pk = pk]
       IN  /\ allocations' = super_save(allocations, row)
           /\ nextPk' = IF txn[p].self.pk = NoPk THEN nextPk + 1 ELSE nextPk
           /\ txn' = [txn EXCEPT ![p].pc = "done", ![p].self = row,
                                 ![p].locked = NoAttr]
    /\ UNCHANGED <<api, owners, rooms, terms, exams, blackouts, holidays, lastClean, termLog, heatmap, conn>>

\* save() has returned or raised; the caller drops the instance.
Return(p) ==
    /\ txn[p].pc = "done"
    /\ txn' = [txn EXCEPT ![p] = Idle]
    /\ UNCHANGED <<api, owners, allocations, rooms, terms, exams, blackouts, holidays,
                   nextPk, lastClean, termLog, heatmap, conn>>

\* ExamAllocation.delete() (not overridden): the row goes; a DELETE of a row
\* locked by a writer waits for it.
Delete(pk) ==
    /\ \E a \in allocations : a.pk = pk
    /\ pk \notin UNION {LockedBy(q) : q \in Txns}
    /\ allocations' = {a \in allocations : a.pk # pk}
    /\ UNCHANGED <<api, owners, rooms, terms, exams, blackouts, holidays, nextPk, txn, lastClean, termLog, heatmap, conn>>

NoCall == [called |-> FALSE, self |-> Idle.self, raised |-> {}, evaluated |-> <<>>]

\* no Term update and no capacity_heatmap request has been made
NoTermLog == [via |-> "none", attrs |-> <<>>, errors |-> {}, before |-> <<>>,
              published_as |-> <<>>]
\* no request has been made to the REST API
NoRequest == [called |-> FALSE, endpoint |-> "", method |-> "", user |-> "",
              pk |-> 0, exam |-> "", payload_owner |-> {}, status |-> 0]
NoHeatmap == [called |-> FALSE, term |-> "", start_param |-> {}, end_param |-> {},
              room_ids |-> {}, error |-> {}, rooms |-> <<>>]

Init ==
    /\ allocations = {}
    /\ rooms = [r \in Rooms |-> FixtureCapacity(r)]
    /\ terms = [t \in TermIds |-> FixtureTerm]
    /\ exams = [e \in ExamIds |-> "1403-SPR"]
    /\ blackouts = {}
    /\ holidays = {}
    /\ nextPk = 1
    /\ txn = [p \in Txns |-> Idle]
    /\ lastClean = NoCall
    /\ termLog = NoTermLog
    /\ heatmap = NoHeatmap
    /\ conn = [p \in Txns |-> NoOuter]
    /\ api = NoRequest
    /\ owners = [e \in DOMAIN exams |-> "staff"]

\* the primary-key sequence is stopped at MaxAllocs
SequenceLeft(self) == self.pk = NoPk => nextPk <= MaxAllocs

\* concurrent writers, each saving again and again
Next ==
    \/ \E p \in Txns :
         \E self \in Candidates(0 .. MaxAllocs, {"Auditorium"},
                                ConcurrentIntervals, SaveSeats) :
            SequenceLeft(self) /\ SaveBegin(p, self)
    \/ \E p \in Txns : LockOverlaps(p)
    \/ \E p \in Txns : FullClean(p)
    \/ \E p \in Txns : Write(p)
    \/ \E p \in Txns : Return(p)
    \/ \E pk \in 1 .. MaxAllocs : Delete(pk)

Spec == Init /\ [][Next]_vars

\* one writer: every save() and delete() runs alone
NextSeq ==
    \/ \E self \in Candidates(0 .. MaxAllocs, Rooms, SaveIntervals, SaveSeats) :
          SequenceLeft(self) /\ SaveBegin(1, self)
    \/ LockOverlaps(1)
    \/ FullClean(1)
    \/ Write(1)
    \/ Return(1)
    \/ \E pk \in 1 .. MaxAllocs : txn[1].pc = "idle" /\ Delete(pk)

SpecSeq == Init /\ [][NextSeq]_vars

----------------------------------------------------------------------------
(* clean() called on its own (ExamAllocationSerializer.validate)           *)

\* stored rows the direct calls are made against
SeedRows ==
    { Row(1, "MATH201", "Auditorium", At(1, 8, 0), At(1, 10, 0), 50),
      Row(2, "MATH201", "Auditorium", At(1, 9, 0), At(1, 11, 0), 50),
      Row(3, "MATH201", "Auditorium", At(1, 10, 0), At(1, 11, 0), 50),
      Row(4, "MATH201", "MainHall", At(1, 8, 0), At(1, 10, 0), 60) }

Blackout(room, s, e) == [room |-> room, start_at |-> s, end_at |-> e]
Holiday(start_date, end_date) == [start_date |-> start_date, end_date |-> end_date]

BlackoutTables ==
    { {}, {Blackout(NoRoom, At(1, 8, 0), At(1, 12, 0))},
      {Blackout("MainHall", At(1, 8, 0), At(1, 12, 0))} }
HolidayTables == { {}, {Holiday(2, 2)} }
TermChoices == { Term(1, 1, TRUE), Term(1, 2, TRUE) }

\* instants of the candidates: around the local midnights (20:30 UTC) that
\* bound the term, and the slots of day 1
CleanInstants ==
    { At(0, 12, 0), At(0, 20, 30), At(1, 8, 0), At(1, 9, 0), At(1, 9, 30),
      At(1, 10, 0), At(1, 10, 30), At(1, 11, 0), At(1, 20, 30), At(1, 22, 0) }
CleanSeats == {1, 50, 60}

\* every half hour of the days the model uses
Grid == {30 * k : k \in 0 .. (4 * 48)}

RECURSIVE SumSeats(_)
SumSeats(S) ==
    IF S = {} THEN 0
    ELSE LET a == CHOOSE x \in S : TRUE
         IN  a.allocated_seats + SumSeats(S \ {a})

\* seats of the rows of `tbl` that book `room` at instant t
LoadAt(tbl, room, t) ==
    SumSeats({a \in tbl : a.room = room /\ a.start_at <= t /\ t < a.end_at})

WithinCapacity(tbl, rms) ==
    \A room \in DOMAIN rms : \A t \in Grid : LoadAt(tbl, room, t) <= rms[room]

\* instance.clean() on a new instance or on a stored row with new values
CleanCall(self) ==
    /\ ~lastClean.called
    /\ self.pk = NoPk \/ \E a \in allocations : a.pk = self.pk
    /\ LET out == clean(self, NoAttr, CurrentDb)
       IN  lastClean' = [called |-> TRUE, self |-> self,
                         raised |-> out.raised, evaluated |-> out.evaluated]
    /\ UNCHANGED <<api, owners, allocations, rooms, terms, exams, blackouts, holidays, nextPk,
                   txn, termLog, heatmap, conn>>

InitClean ==
    /\ allocations \in {tbl \in SUBSET SeedRows :
                           /\ Cardinality(tbl) <= MaxAllocs
                           /\ WithinCapacity(tbl, [r \in Rooms |-> FixtureCapacity(r)])}
    /\ rooms = [r \in Rooms |-> FixtureCapacity(r)]
    /\ terms \in [TermIds -> TermChoices]
    /\ exams = [e \in ExamIds |-> "1403-SPR"]
    /\ blackouts \in BlackoutTables
    /\ holidays \in HolidayTables
    /\ nextPk = 5
    /\ txn = [p \in Txns |-> Idle]
    /\ lastClean = NoCall
    /\ termLog = NoTermLog
    /\ heatmap = NoHeatmap
    /\ conn = [p \in Txns |-> NoOuter]
    /\ api = NoRequest
    /\ owners = [e \in DOMAIN exams |-> "staff"]

NextClean ==
    \E self \in Candidates({NoPk, 1}, Rooms,
                           CleanInstants \X CleanInstants, CleanSeats) :
        CleanCall(self)

SpecClean == InitClean /\ [][NextClean]_vars

----------------------------------------------------------------------------
(* Concurrent writers, one save() each, on a table that sequential saves   *)
(* can have built                                                          *)

SeedPks == {a.pk : a \in SeedRows}

InitOnce ==
    /\ allocations \in {tbl \in SUBSET SeedRows :
                           /\ Cardinality(tbl) <= MaxAllocs
                           /\ WithinCapacity(tbl, [r \in Rooms |-> FixtureCapacity(r)])}
    /\ rooms = [r \in Rooms |-> FixtureCapacity(r)]
    /\ terms = [t \in TermIds |-> FixtureTerm]
    /\ exams = [e \in ExamIds |-> "1403-SPR"]
    /\ blackouts = {}
    /\ holidays = {}
    /\ nextPk = 5
    /\ txn = [p \in Txns |-> Idle]
    /\ lastClean = NoCall
    /\ termLog = NoTermLog
    /\ heatmap = NoHeatmap
    /\ conn = [p \in Txns |-> NoOuter]
    /\ api = NoRequest
    /\ owners = [e \in DOMAIN exams |-> "staff"]

NextOnce ==
    \/ \E p \in Txns :
         \E self \in Candidates({NoPk} \cup SeedPks, {"Auditorium"},
                                ConcurrentIntervals, SaveSeats) :
            SaveBegin(p, self)
    \/ \E p \in Txns : LockOverlaps(p)
    \/ \E p \in Txns : FullClean(p)
    \/ \E p \in Txns : Write(p)

SpecOnce == InitOnce /\ [][NextOnce]_vars

----------------------------------------------------------------------------
(* Properties                                                              *)

\* C1: with saves and deletes run one at a time from an empty table, at
\* every instant the seats booked in a room never exceed its capacity.
C1_CapacityNeverExceeded == WithinCapacity(allocations, rooms)

\* a room booked to exactly its capacity by two overlapping rows, and a
\* further save just rejected for capacity
C1_Witness ==
    /\ \E a, b \in allocations :
          /\ a.pk # b.pk /\ a.room = b.room
          /\ a.start_at < b.end_at /\ b.start_at < a.end_at
          /\ a.allocated_seats + b.allocated_seats = rooms[a.room]
    /\ txn[1].pc = "done"
    /\ CapacityViolation \in txn[1].errors

\* the rows of two instances book the same room at overlapping times
SameRoomOverlap(a, b) ==
    a.room = b.room /\ a.start_at < b.end_at /\ b.start_at < a.end_at

\* writer p is inside its transaction, past the read of its overlap set
Validating(p) == txn[p].pc \in {"locked", "valid"}

\* writer p's save() committed
Committed(p) == txn[p].pc = "done" /\ txn[p].errors = {}

\* the save() of writer p creates a row
Creates(p) == txn[p].pc # "idle" /\ txn[p].self.pk \notin SeedPks

\* C2 (scenario 5): two concurrent creates of 60 seats for the same slot of
\* a room of capacity 100 that holds nothing else: once both calls have
\* ended, exactly one was accepted and the other rejected.
C2_ExactlyOneAccepted ==
    \A p, q \in Txns :
        ( /\ p # q
          /\ Creates(p) /\ Creates(q)
          /\ txn[p].pc = "done" /\ txn[q].pc = "done"
          /\ txn[p].self.room = txn[q].self.room
          /\ txn[p].self.start_at = txn[q].self.start_at
          /\ txn[p].self.end_at = txn[q].self.end_at
          /\ txn[p].self.allocated_seats = 60
          /\ txn[q].self.allocated_seats = 60
          /\ rooms[txn[p].self.room] = 100
          /\ \A a \in allocations :
                a.room = txn[p].self.room => a \in {txn[p].self, txn[q].self} )
        => (Committed(p) /\ ~Committed(q)) \/ (Committed(q) /\ ~Committed(p))

\* C3: two concurrent saves on the same room with overlapping intervals are
\* serialized: neither reads and validates while the other is between its
\* read and its commit, and a writer that reads after the other committed
\* has the other's row in its overlap set.
C3_Serialized ==
    \A p, q \in Txns :
        ( /\ p # q
          /\ txn[p].self.pk = NoPk \/ txn[p].self.pk # txn[q].self.pk
          /\ SameRoomOverlap(txn[p].self, txn[q].self) )
        => /\ ~(Validating(p) /\ Validating(q))
           /\ (Committed(p) /\ Validating(q)) =>
                 \E i \in 1 .. Len(txn[q].locked.rows) :
                    txn[q].locked.rows[i] = txn[p].self

\* C4: a room that already held allocations when the writers came stays
\* within its capacity in every committed state.
C4_HeldRoomWithinCapacity ==
    \A room \in Rooms :
        (\E a \in allocations : a.pk \in SeedPks /\ a.room = room)
        => \A t \in Grid : LoadAt(allocations, room, t) <= rooms[room]

\* the four checks of the pipeline, each evaluated on its own
CheckNames == <<"term", "blackout", "holiday", "capacity">>
CheckAlone(i, self, db) ==
    CASE i = 1 -> _validate_term_window(self, TermOf(self, db))
      [] i = 2 -> _validate_blackouts(self, db.blackouts)
      [] i = 3 -> _validate_holidays(self, db.holidays)
      [] i = 4 -> _validate_capacity(self, NoAttr, db.allocations, db.rooms[self.room])

\* C5: clean() runs term window, blackout, holiday, capacity in that order
\* and stops at the first that fails: the error is that check's single
\* error and no later check was evaluated.
C5_FirstFailureOnly ==
    lastClean.called =>
        LET self == lastClean.self
            failing == {i \in 1 .. 4 : CheckAlone(i, self, CurrentDb) # {}}
        IN  IF failing = {}
            THEN lastClean.raised = {} /\ lastClean.evaluated = CheckNames
            ELSE LET k == CHOOSE i \in failing : \A j \in failing : i <= j
                 IN  /\ lastClean.raised = CheckAlone(k, self, CurrentDb)
                     /\ Cardinality({e.field : e \in lastClean.raised}) = 1
                     /\ lastClean.evaluated = SubSeq(CheckNames, 1, k)
                     /\ (1 \in failing /\ 4 \in failing) =>
                            lastClean.raised = {Err("start_at", "term")}

\* a candidate outside the term that would also overflow the room: the
\* error is the term window's, keyed start_at
C5_Witness ==
    /\ lastClean.called
    /\ CheckAlone(1, lastClean.self, CurrentDb) # {}
    /\ CheckAlone(4, lastClean.self, CurrentDb) # {}
    /\ lastClean.raised = {TermWindowViolation}
    /\ lastClean.evaluated = <<"term">>

\* the stored rows other than the candidate's own
Others(self, tbl) == {a \in tbl : self.pk = NoPk \/ a.pk # self.pk}

\* brute force: at some instant of [start_at, end_at) the candidate's seats
\* plus the seats of the other rows of the room exceed the capacity
Overflows(self, tbl, room_capacity) ==
    \E t \in Grid :
        /\ self.start_at <= t /\ t < self.end_at
        /\ self.allocated_seats + LoadAt(Others(self, tbl), self.room, t)
               > room_capacity

\* C6: against stored rows that respect the capacity, the capacity check
\* rejects, with the error keyed allocated_seats, exactly the candidates
\* that overflow the room at some instant of their interval.
C6_SweepMatchesBruteForce ==
    lastClean.called =>
        LET self == lastClean.self
            cap == rooms[self.room]
            over == Overflows(self, allocations, cap)
        IN  /\ (_validate_capacity(self, NoAttr, allocations, cap) # {}) <=> over
            /\ _validate_capacity(self, NoAttr, allocations, cap)
                  \subseteq {Err("allocated_seats", "capacity")}
            /\ lastClean.evaluated = CheckNames =>
                  (lastClean.raised = {Err("allocated_seats", "capacity")} <=> over)

\* scenario 1: A [08:00,10:00) 50 and B [09:00,11:00) 50 are stored in a room
\* of 100 seats; C [09:30,10:30) with one seat is rejected
C6_Witness ==
    /\ lastClean.called
    /\ allocations = {Row(1, "MATH201", "Auditorium", At(1, 8, 0), At(1, 10, 0), 50),
                      Row(2, "MATH201", "Auditorium", At(1, 9, 0), At(1, 11, 0), 50)}
    /\ rooms["Auditorium"] = 100
    /\ lastClean.self = Row(NoPk, "MATH201", "Auditorium",
                            At(1, 9, 30), At(1, 10, 30), 1)
    /\ lastClean.raised = {CapacityViolation}

\* C9: the term-window check passes exactly when start_at is not before the
\* local midnight that opens term.start_date and end_at is not after the
\* local midnight that closes term.end_date; a failure is keyed start_at.
C9_TermWindowByLocalDate ==
    lastClean.called =>
        LET self == lastClean.self
            trm == TermOf(self, CurrentDb)
            inside == /\ self.start_at >= LocalMidnight(trm.start_date)
                      /\ self.end_at <= LocalMidnight(trm.end_date + 1)
        IN  /\ inside <=> (TermWindowViolation \notin lastClean.raised)
            /\ ~inside => lastClean.raised = {Err("start_at", "term")}

\* a candidate ending exactly at the local midnight after term.end_date
\* passes the term window
C9_Witness ==
    /\ lastClean.called
    /\ lastClean.self.end_at =
          LocalMidnight(TermOf(lastClean.self, CurrentDb).end_date + 1)
    /\ lastClean.self.start_at < lastClean.self.end_at
    /\ Len(lastClean.evaluated) > 1

\* some blackout window of the candidate's room, or of no room, strictly
\* overlaps the candidate
Blocked(self, bws) ==
    \E b \in bws :
        /\ b.room \in {self.room, NoRoom}
        /\ ~(b.end_at <= self.start_at \/ self.end_at <= b.start_at)

\* C10: the blackout check rejects, keyed start_at and whatever the seats
\* and the capacity, exactly the candidates that a window of their room or
\* of no room strictly overlaps.
C10_BlackoutBlocks ==
    lastClean.called =>
        LET self == lastClean.self
        IN  /\ (_validate_blackouts(self, blackouts) # {}) <=> Blocked(self, blackouts)
            /\ "blackout" \in {lastClean.evaluated[i] :
                                 i \in 1 .. Len(lastClean.evaluated)} =>
                  IF Blocked(self, blackouts)
                  THEN lastClean.raised = {Err("start_at", "blackout")}
                  ELSE BlackoutViolation \notin lastClean.raised

\* scenario 2: a window of no room blocks a one-seat candidate
C10_Witness ==
    /\ lastClean.called
    /\ blackouts = {Blackout(NoRoom, At(1, 8, 0), At(1, 12, 0))}
    /\ lastClean.self.allocated_seats = 1
    /\ lastClean.raised = {BlackoutViolation}
    /\ CheckAlone(4, lastClean.self, CurrentDb) = {}

\* the rows of a materialised overlap list
RowsOf(attr) == {attr.rows[i] : i \in 1 .. Len(attr.rows)}

\* stored row A ends at the instant the saved instance B starts, same room
BackToBack(A, B) ==
    /\ A.room = B.room
    /\ A.end_at = B.start_at
    /\ A.pk # B.pk

\* C7: a stored row A that ends at the instant the saved instance B starts,
\* in the same room, is not in B's overlap set; were it in the list, the
\* sweep would release A's seats before adding B's and decide the same; and
\* the outcome of B's save() is the one it has with A deleted, so B is not
\* rejected for capacity when the room holds only A and B.
C7_BackToBack ==
    \A A \in allocations :
        LET B == txn[1].self
            cap == rooms[B.room]
            without == allocations \ {A}
        IN  (txn[1].pc \in {"locked", "valid", "done"} /\ BackToBack(A, B)) =>
              /\ txn[1].pc \in {"locked", "valid"} =>
                    /\ A \notin RowsOf(txn[1].locked)
                    /\ _validate_capacity(B,
                           Attr(OrderedRows(RowsOf(txn[1].locked) \cup {A})),
                           allocations, cap)
                       = _validate_capacity(B, txn[1].locked, allocations, cap)
              /\ txn[1].pc = "done" =>
                    /\ txn[1].errors =
                          full_clean(B, Attr(OrderedRows(overlap_qs(B, without))),
                                     Db(without, rooms, terms, exams,
                                        blackouts, holidays))
                    /\ ( /\ \A a \in allocations : a.room = B.room => a \in {A, B}
                         /\ A.allocated_seats + B.allocated_seats <= cap )
                       => CapacityViolation \notin txn[1].errors

\* A [08:00,09:00) and B [09:00,10:00), 60 seats each in the room of 100
\* seats, are both stored
C7_Witness ==
    /\ txn[1].pc = "done"
    /\ txn[1].errors = {}
    /\ txn[1].self \in allocations
    /\ txn[1].self.allocated_seats = 60
    /\ \E A \in allocations :
          /\ BackToBack(A, txn[1].self)
          /\ A.allocated_seats = 60
          /\ rooms[A.room] = 100

\* writer 1 is inside save() before the step and has left it after
Finishes == txn[1].pc \in {"locked", "valid"} /\ txn'[1].pc = "done"

\* C8: a step of save() that ends it with errors leaves the table as it was;
\* a step that ends it without errors inserts the instance, or replaces the
\* row of its pk, and changes no other row; no other step of save() writes.
C8_RollbackOrExactWrite ==
    [][ /\ (Finishes /\ txn'[1].errors # {}) => allocations' = allocations
        /\ (Finishes /\ txn'[1].errors = {}) =>
              /\ txn'[1].self \in allocations'
              /\ \A a \in allocations' :
                    a # txn'[1].self => (a \in allocations /\ a.pk # txn'[1].self.pk)
              /\ \A a \in allocations :
                    a.pk # txn'[1].self.pk => a \in allocations'
              /\ Cardinality({a \in allocations' : a.pk = txn'[1].self.pk}) = 1
              /\ txn[1].self.pk = NoPk =>
                    Cardinality(allocations') = Cardinality(allocations) + 1
              /\ txn[1].self.pk # NoPk =>
                    Cardinality(allocations') = Cardinality(allocations)
        /\ (txn[1].pc # "idle" /\ ~Finishes) => allocations' = allocations
      ]_vars

\* a failed update: the stored row keeps its old values beside another row
C8_Witness ==
    /\ txn[1].pc = "done"
    /\ txn[1].errors # {}
    /\ txn[1].self.pk # NoPk
    /\ \E a \in allocations : a.pk = txn[1].self.pk /\ a # txn[1].self
    /\ Cardinality(allocations) = 2

\* some holiday lasts, in local time, into the candidate's interval: it
\* opens before end_at and closes after start_at
OnHoliday(self, hds) ==
    \E h \in hds :
        /\ LocalMidnight(h.start_date) < self.end_at
        /\ LocalMidnight(h.end_date + 1) > self.start_at

\* C11: the holiday check rejects, keyed start_at and in every room, exactly
\* the candidates whose local date span (end_at exclusive) meets the
\* inclusive date range of a holiday.
C11_HolidayBlocks ==
    lastClean.called =>
        LET self == lastClean.self
        IN  /\ (_validate_holidays(self, holidays) # {}) <=> OnHoliday(self, holidays)
            /\ _validate_holidays(self, holidays) \subseteq {Err("start_at", "holiday")}
            /\ Len(lastClean.evaluated) >= 3 =>
                  IF OnHoliday(self, holidays)
                  THEN lastClean.raised = {Err("start_at", "holiday")}
                  ELSE HolidayViolation \notin lastClean.raised

\* a candidate ending exactly at the local midnight that starts the holiday
\* reaches the holiday check and passes it
C11_Witness ==
    /\ lastClean.called
    /\ \E h \in holidays : lastClean.self.end_at = LocalMidnight(h.start_date)
    /\ lastClean.self.start_at < lastClean.self.end_at
    /\ lastClean.self.room = "MainHall"
    /\ Len(lastClean.evaluated) = 4

\* writer 1 is inside save() with an instance equal to its stored row
Resaving ==
    /\ txn[1].pc \in {"atomic", "locked", "valid"}
    /\ txn[1].self.pk # NoPk
    /\ txn[1].self \in allocations

\* C12: while a stored row is saved again with unchanged values, its own row
\* is never in its overlap list, no step raises an error and no step changes
\* the table.
C12_ResaveUnchanged ==
    [][ Resaving =>
          /\ allocations' = allocations
          /\ txn'[1].errors = {}
          /\ txn'[1].pc \in {"locked", "valid", "done"}
          /\ txn'[1].self = txn[1].self
          /\ txn'[1].self \notin RowsOf(txn'[1].locked)
      ]_vars

\* a stored row of 50 seats has passed validation again beside an overlapping
\* row of 50 seats in the room of 100: counted twice it would not fit
C12_Witness ==
    /\ txn[1].pc = "valid"
    /\ txn[1].self \in allocations
    /\ txn[1].self.allocated_seats = 50
    /\ rooms[txn[1].self.room] = 100
    /\ \E a \in RowsOf(txn[1].locked) :
          a.pk # txn[1].self.pk /\ a.allocated_seats = 50

----------------------------------------------------------------------------
(* Term: publication and the locked fields                                 *)

LOCKED_FIELDS == {"code", "start_date", "end_date"}

TermFields == {"name", "code", "start_date", "end_date", "is_published"}

\* a Term row with every field the serializer exposes
TermRow(name, code, start_date, end_date, is_published) ==
    [name |-> name, code |-> code, start_date |-> start_date,
     end_date |-> end_date, is_published |-> is_published]

TermNames == {"Spring 1403", "Updated"}
TermCodes == {"1403-SPR", "1403-FALL"}
TermDates == 1 .. 2

TermValues(f) ==
    CASE f = "name" -> TermNames
      [] f = "code" -> TermCodes
      [] f = "start_date" -> TermDates
      [] f = "end_date" -> TermDates
      [] f = "is_published" -> BOOLEAN

\* request bodies: a PATCH carries one or two fields, a PUT the four
\* required ones
PatchAttrs ==
    UNION { {(f :> v) @@ (g :> w) : v \in TermValues(f), w \in TermValues(g)} :
               f \in TermFields, g \in TermFields }
PutAttrs ==
    [name : TermNames, code : TermCodes, start_date : TermDates, end_date : TermDates]

\* setattr(instance, field, value) for every submitted field
SetAttrs(instance, attrs) ==
    [f \in TermFields |-> IF f \in DOMAIN attrs THEN attrs[f] ELSE instance[f]]

\* Term.clean(): on a stored term that is published, every locked field that
\* differs from the stored row is an error
Term_clean(self, original) ==
    IF ~original.is_published THEN {}
    ELSE {field_name \in LOCKED_FIELDS : self[field_name] # original[field_name]}

\* TermSerializer.validate(): on a published instance, every submitted locked
\* field that differs from the instance is an error
TermSerializer_validate(instance, attrs) ==
    IF ~instance.is_published THEN {}
    ELSE {field_name \in LOCKED_FIELDS \cap DOMAIN attrs :
             attrs[field_name] # instance[field_name]}

\* CheckConstraint term_start_before_or_equal_end
term_start_before_or_equal_end(row) ==
    IF row.start_date <= row.end_date THEN {}
    ELSE {"term_start_before_or_equal_end"}

LockedValues(row) == <<row.code, row.start_date, row.end_date>>

\* the locked values are noted when is_published turns true
PublishedAs(before, after) ==
    IF ~before.is_published /\ after.is_published
    THEN LockedValues(after)
    ELSE termLog.published_as

\* Term.publish(): sets is_published, saves that field only
TermPublish(id) ==
    /\ LET before == terms[id]
           after == [before EXCEPT !.is_published = TRUE]
       IN  /\ terms' = [terms EXCEPT ![id] = after]
           /\ termLog' = [via |-> "publish", attrs |-> <<>>, errors |-> {},
                          before |-> before,
                          published_as |-> PublishedAs(before, after)]
    /\ UNCHANGED <<api, owners, allocations, rooms, exams, blackouts, holidays, nextPk, txn,
                   lastClean, heatmap, conn>>

\* PATCH/PUT /api/terms/{id}/: TermSerializer.validate, then
\* ModelSerializer.update sets the fields and saves; the database rejects a
\* row that breaks the check constraint.
TermSerializerUpdate(id, attrs) ==
    /\ LET before == terms[id]
           locked_errors == TermSerializer_validate(before, attrs)
           after == SetAttrs(before, attrs)
           errors == IF locked_errors # {} THEN locked_errors
                     ELSE term_start_before_or_equal_end(after)
           stored == IF errors = {} THEN after ELSE before
       IN  /\ terms' = [terms EXCEPT ![id] = stored]
           /\ termLog' = [via |-> "serializer", attrs |-> attrs, errors |-> errors,
                          before |-> before,
                          published_as |-> PublishedAs(before, stored)]
    /\ UNCHANGED <<api, owners, allocations, rooms, exams, blackouts, holidays, nextPk, txn,
                   lastClean, heatmap, conn>>

\* the model path: load the term, set fields, full_clean(), save when clean
TermFullClean(id, attrs) ==
    /\ LET original == terms[id]
           self == SetAttrs(original, attrs)
           locked_errors == Term_clean(self, original)
           errors == locked_errors \cup
                     ( IF {"start_date", "end_date"} \cap locked_errors # {}
                       THEN {} ELSE term_start_before_or_equal_end(self) )
           stored == IF errors = {} THEN self ELSE original
       IN  /\ terms' = [terms EXCEPT ![id] = stored]
           /\ termLog' = [via |-> "full_clean", attrs |-> attrs, errors |-> errors,
                          before |-> original,
                          published_as |-> PublishedAs(original, stored)]
    /\ UNCHANGED <<api, owners, allocations, rooms, exams, blackouts, holidays, nextPk, txn,
                   lastClean, heatmap, conn>>

\* the term of the fixtures, not yet published
InitTerm ==
    /\ allocations = {}
    /\ rooms = [r \in Rooms |-> FixtureCapacity(r)]
    /\ terms = [t \in TermIds |-> TermRow("Spring 1403", "1403-SPR", 1, 2, FALSE)]
    /\ exams = [e \in ExamIds |-> "1403-SPR"]
    /\ blackouts = {}
    /\ holidays = {}
    /\ nextPk = 1
    /\ txn = [p \in Txns |-> Idle]
    /\ lastClean = NoCall
    /\ termLog = NoTermLog
    /\ heatmap = NoHeatmap
    /\ conn = [p \in Txns |-> NoOuter]
    /\ api = NoRequest
    /\ owners = [e \in DOMAIN exams |-> "staff"]

NextTerm ==
    \E id \in TermIds :
        \/ TermPublish(id)
        \/ \E attrs \in PatchAttrs \cup PutAttrs : TermSerializerUpdate(id, attrs)
        \/ \E attrs \in PatchAttrs : TermFullClean(id, attrs)

SpecTerm == InitTerm /\ [][NextTerm]_vars

\* C13: from the moment a term is published, its code, start_date and
\* end_date keep the values they had at publication through every later
\* update.
C13_LockedAfterPublication ==
    \A id \in TermIds :
        termLog.published_as # <<>> =>
            LockedValues(terms[id]) = termLog.published_as

\* on a published term an update that changes a locked field is rejected with
\* an error for that field and stores nothing; a change of name is accepted
TermUpdateOutcome ==
    \A id \in TermIds :
        (termLog.via \in {"serializer", "full_clean"} /\ termLog.before.is_published) =>
            /\ \A f \in LOCKED_FIELDS \cap DOMAIN termLog.attrs :
                  termLog.attrs[f] # termLog.before[f] =>
                      f \in termLog.errors /\ terms[id] = termLog.before
            /\ DOMAIN termLog.attrs = {"name"} =>
                  termLog.errors = {} /\ terms[id].name = termLog.attrs.name

----------------------------------------------------------------------------
(* Exit paths of save(): storage errors and enclosing transactions         *)

\* a database error (OperationalError, IntegrityError): not a ValidationError
StorageError == Err("__db__", "DatabaseError")

\* the caller retries a save() that ended with a storage error this often
MaxRetries == 1

\* the finally block of save() keeps the attribute
finally_keeps_attr(t) == t

\* finally: if hasattr(self, "_locked_overlaps"): delattr(...)
finally(t) == [t EXCEPT !.locked = NoAttr]

\* a caller opens transaction.atomic() around its save() (load_demo_data)
OuterBegin(p) ==
    /\ txn[p].pc = "idle"
    /\ ~conn[p].open
    /\ conn' = [conn EXCEPT ![p].open = TRUE]
    /\ UNCHANGED <<api, owners, allocations, rooms, terms, exams, blackouts, holidays,
                   nextPk, txn, lastClean, termLog, heatmap>>

\* the database error of list(overlap_qs) is swallowed and save() goes on
\* with an empty overlap list
LockFails_swallowed(p) ==
    /\ txn[p].pc = "atomic"
    /\ conn[p].aborted < MaxRetries
    /\ txn' = [txn EXCEPT ![p].pc = "locked", ![p].locked = Attr(<<>>)]
    /\ conn' = [conn EXCEPT ![p].aborted = @ + 1]
    /\ UNCHANGED <<api, owners, allocations, rooms, terms, exams, blackouts, holidays,
                   nextPk, lastClean, termLog, heatmap>>

\* list(overlap_qs) raises: the store does not grant the locks (lock
\* timeout, deadlock victim, database locked or unreachable).  The exception
\* leaves the atomic block; no attribute was set.
LockFails(p) ==
    /\ txn[p].pc = "atomic"
    /\ conn[p].aborted < MaxRetries
    /\ txn' = [txn EXCEPT ![p] =
                 finally([@ EXCEPT !.pc = "done", !.errors = {StorageError}])]
    /\ conn' = [conn EXCEPT ![p].aborted = @ + 1]
    /\ UNCHANGED <<api, owners, allocations, rooms, terms, exams, blackouts, holidays,
                   nextPk, lastClean, termLog, heatmap>>

\* super().save() raises a database error: the block rolls back, the locks
\* taken in it go, finally removes the attribute.
WriteFails(p) ==
    /\ txn[p].pc = "valid"
    /\ conn[p].aborted < MaxRetries
    /\ txn' = [txn EXCEPT ![p] =
                 finally([@ EXCEPT !.pc = "done", !.errors = {StorageError}])]
    /\ conn' = [conn EXCEPT ![p].aborted = @ + 1]
    /\ UNCHANGED <<api, owners, allocations, rooms, terms, exams, blackouts, holidays,
                   nextPk, lastClean, termLog, heatmap>>

\* super().save() inside an enclosing transaction: the savepoint is released,
\* the row is written but not committed, the row locks stay with the
\* enclosing transaction.
WriteInside(p) ==
    /\ txn[p].pc = "valid"
    /\ conn[p].open
    /\ txn[p].self.pk \notin LockedByOthers(p)
    /\ LET pk == IF txn[p].self.pk = NoPk THEN nextPk ELSE txn[p].self.pk
           row == [txn[p].self EXCEPT !.pk = pk]
       IN  /\ conn' = [conn EXCEPT ![p].held = LockedBy(p) \cup {pk},
                                   ![p].pending = {row}]
           /\ nextPk' = IF txn[p].self.pk = NoPk THEN nextPk + 1 ELSE nextPk
           /\ txn' = [txn EXCEPT ![p] =
                        finally([@ EXCEPT !.pc = "done", !.self = row])]
    /\ UNCHANGED <<api, owners, allocations, rooms, terms, exams, blackouts, holidays,
                   lastClean, termLog, heatmap>>

\* the caller calls save() again after a storage error
Retry(p) ==
    /\ txn[p].pc = "done"
    /\ txn[p].errors = {StorageError}
    /\ ~conn[p].open
    /\ txn' = [txn EXCEPT ![p].pc = "atomic", ![p].errors = {}]
    /\ UNCHANGED <<api, owners, allocations, rooms, terms, exams, blackouts, holidays,
                   nextPk, lastClean, termLog, heatmap, conn>>

\* the enclosing block ends after save() returned or raised: commit of the
\* pending row (nothing is pending after an exception), release of the locks
OuterEnd(p) ==
    /\ txn[p].pc = "done"
    /\ conn[p].open
    /\ allocations' = IF conn[p].pending = {} THEN allocations
                      ELSE super_save(allocations, CHOOSE r \in conn[p].pending : TRUE)
    /\ conn' = [conn EXCEPT ![p].open = FALSE, ![p].held = {}, ![p].pending = {}]
    /\ UNCHANGED <<api, owners, rooms, terms, exams, blackouts, holidays, nextPk, txn,
                   lastClean, termLog, heatmap>>

\* the slot the writers of the exit paths book or move row 1 to
ExitIntervals == {<<At(1, 8, 0), At(1, 10, 0)>>}
ExitSeats == {50}

\* writers, one save() each, with or without an enclosing transaction,
\* against a stored table; the store may fail
NextExit ==
    \/ \E p \in Txns : OuterBegin(p)
    \/ \E p \in Txns :
         \E self \in Candidates({NoPk, 1}, {"Auditorium"}, ExitIntervals, ExitSeats) :
            SaveBegin(p, self)
    \/ \E p \in Txns : LockOverlaps(p)
    \/ \E p \in Txns : LockFails(p)
    \/ \E p \in Txns : FullClean(p)
    \/ \E p \in Txns : Write(p)
    \/ \E p \in Txns : WriteInside(p)
    \/ \E p \in Txns : WriteFails(p)
    \/ \E p \in Txns : Retry(p)
    \/ \E p \in Txns : OuterEnd(p)

SpecExit == InitOnce /\ [][NextExit]_vars

\* p is outside save(): no cached overlap list
NoCachedOverlaps(p) ==
    txn[p].pc \in {"idle", "done"} => txn[p].locked = NoAttr

\* p is outside save() and outside any transaction: no lock, nothing pending
NothingHeld(p) ==
    (txn[p].pc \in {"idle", "done"} /\ ~conn[p].open) =>
        LockedBy(p) = {} /\ conn[p].pending = {}

\* the steps of save() come in the order lock, read, validate, write
InOrder(p) ==
    /\ (txn'[p].pc = "locked" /\ txn[p].pc # "locked") =>
          txn[p].pc = "atomic" /\ txn'[p].locked.present
    /\ (txn'[p].pc = "valid" /\ txn[p].pc # "valid") =>
          /\ txn[p].pc = "locked"
          /\ txn'[p].locked = txn[p].locked
          /\ full_clean(txn[p].self, txn[p].locked, CurrentDb) = {}
    /\ (txn'[p] # txn[p] /\ (allocations' # allocations \/ conn'[p].pending # conn[p].pending)) =>
          txn[p].pc = "valid" /\ txn'[p].errors = {}

\* C14 as stated: when save() has returned, its transaction has ended (no
\* row it wrote is left uncommitted), it holds no row lock and the instance
\* has no _locked_overlaps attribute.
C14_ReleasedOnReturn ==
    \A p \in Txns :
        txn[p].pc = "done" =>
            /\ conn[p].pending = {}
            /\ LockedBy(p) = {}
            /\ txn[p].locked = NoAttr

\* C14 amended: save() locks, reads, validates and writes in that order; on
\* every exit path the _locked_overlaps attribute is removed; the row locks
\* are released when the transaction ends, which is the return of save()
\* unless the caller wrapped it in a transaction of its own.
C14_ReleasedAtTransactionEnd ==
    [][ \A p \in Txns : /\ InOrder(p)
                        /\ NoCachedOverlaps(p)'
                        /\ NothingHeld(p)'
      ]_vars

\* a save() that returned inside an enclosing transaction: the attribute is
\* gone, the locks on the overlapping rows are still held
C14_Witness ==
    \E p \in Txns :
        /\ txn[p].pc = "done"
        /\ txn[p].errors = {}
        /\ txn[p].locked = NoAttr
        /\ conn[p].open
        /\ \E a \in allocations : a.pk \in conn[p].held /\ a.pk # txn[p].self.pk

\* C15: a save() of an instance with start_at >= end_at ends with a
\* validation error and stores nothing, and none of the four checks of
\* clean() was evaluated for it.
C15_RejectedBeforePipeline ==
    (txn[1].pc = "done" /\ txn[1].self.start_at >= txn[1].self.end_at) =>
        /\ txn[1].errors # {}
        /\ txn[1].self \notin allocations
        /\ clean(txn[1].self, NoAttr, CurrentDb).evaluated = <<>>

\* a save() of an instance with start_at >= end_at ends with a validation
\* error and stores nothing
InvertedRejected ==
    (txn[1].pc = "done" /\ txn[1].self.start_at >= txn[1].self.end_at) =>
        /\ txn[1].errors # {}
        /\ txn[1].self \notin allocations

----------------------------------------------------------------------------
(* Rows at the bounds: no seats, no duration                               *)

\* two slots, the first inverted and a slot of no duration
BoundIntervals ==
    { <<At(1, 8, 0), At(1, 9, 0)>>, <<At(1, 9, 0), At(1, 8, 0)>>,
      <<At(1, 8, 0), At(1, 8, 0)>>, <<At(1, 8, 0), At(1, 10, 0)>> }
BoundSeats == {0, 50, 60}

\* one writer creating and updating rows with such values
NextBounds ==
    \/ \E self \in Candidates(0 .. MaxAllocs, Rooms, BoundIntervals, BoundSeats) :
          SequenceLeft(self) /\ SaveBegin(1, self)
    \/ LockOverlaps(1)
    \/ FullClean(1)
    \/ Write(1)
    \/ Return(1)

SpecBounds == Init /\ [][NextBounds]_vars

\* C16: every stored allocation has start_at < end_at and at least one seat.
C16_StoredRowsWellFormed ==
    \A a \in allocations : a.start_at < a.end_at /\ a.allocated_seats >= 1

\* an update of a stored row to no seats, or to an interval of no duration,
\* has just been rejected and the row is still stored
C16_Witness ==
    /\ txn[1].pc = "done"
    /\ txn[1].errors # {}
    /\ txn[1].self.pk # NoPk
    /\ txn[1].self.allocated_seats = 0 \/ txn[1].self.start_at = txn[1].self.end_at
    /\ \E a \in allocations : a.pk = txn[1].self.pk

\* every order in which the rows of a set can be enumerated
Enumerations(S) ==
    {list \in [1 .. Cardinality(S) -> S] :
        \A i, j \in 1 .. Cardinality(S) : list[i] = list[j] => i = j}

\* C17: validating the candidate again, against the same overlap set
\* enumerated in any order and the same term, blackout, holiday and room
\* data, gives the outcome the first validation gave: the same errors, hence
\* the same decision and the same error field.
C17_SameOutcomeInAnyOrder ==
    lastClean.called =>
        LET self == lastClean.self
            overlap_set == overlap_qs(self, allocations)
        IN  \A list \in Enumerations(overlap_set) :
                /\ clean(self, Attr(list), CurrentDb).raised = lastClean.raised
                /\ clean(self, Attr(list), CurrentDb).evaluated = lastClean.evaluated

\* a candidate accepted over two stored rows of which one ends at the
\* instant the other starts, inside the candidate's interval
C17_Witness ==
    /\ lastClean.called
    /\ lastClean.raised = {}
    /\ \E a, b \in overlap_qs(lastClean.self, allocations) :
          /\ a.end_at = b.start_at
          /\ lastClean.self.start_at < a.end_at
          /\ a.end_at < lastClean.self.end_at
          /\ a.allocated_seats + b.allocated_seats + lastClean.self.allocated_seats
                > rooms[lastClean.self.room]

ValidationErrors ==
    {TermWindowViolation, BlackoutViolation, HolidayViolation, CapacityViolation,
     MinValueViolation, ConstraintViolation}

\* what save() starts from
Entered(self) == [pc |-> "atomic", self |-> self, locked |-> NoAttr, errors |-> {}]

\* C18: an attempt that is not granted its locks ends with a storage error
\* and no validation error, changes neither the table nor the key sequence
\* nor another writer, and leaves the instance as it was; an attempt goes on
\* only with the whole overlap set locked; and the retry starts from what a
\* first attempt starts from.
C18_AbortedAttemptLeavesNoTrace ==
    [][ \A p \in Txns :
          /\ (txn[p].pc = "atomic" /\ txn'[p].pc = "done") =>
                /\ txn'[p].errors = {StorageError}
                /\ txn'[p].errors \cap ValidationErrors = {}
                /\ txn'[p].self = txn[p].self
                /\ txn'[p].locked = NoAttr
                /\ allocations' = allocations
                /\ nextPk' = nextPk
                /\ conn'[p].held = conn[p].held /\ conn'[p].pending = conn[p].pending
                /\ \A q \in Txns \ {p} : txn'[q] = txn[q] /\ conn'[q] = conn[q]
          /\ (txn[p].pc = "atomic" /\ txn'[p].pc = "locked") =>
                txn'[p].locked = Attr(OrderedRows(overlap_qs(txn[p].self, allocations)))
          /\ (txn[p].pc = "done" /\ txn'[p].pc = "atomic") =>
                /\ txn'[p] = Entered(txn[p].self)
                /\ allocations' = allocations
                /\ nextPk' = nextPk
      ]_vars

\* a save() tried again after a storage error has stored its row beside a
\* row it had to lock
C18_Witness ==
    \E p \in Txns :
        /\ conn[p].aborted > 0
        /\ txn[p].pc = "done"
        /\ txn[p].errors = {}
        /\ txn[p].self \in allocations
        /\ \E a \in overlap_qs(txn[p].self, allocations) : TRUE

----------------------------------------------------------------------------
(* RoomViewSet.capacity_heatmap                                            *)

Max(a, b) == IF a >= b THEN a ELSE b
Min(a, b) == IF a <= b THEN a ELSE b

\* a query parameter is a set: empty when the request does not carry it
ParamOr(param, default) == IF param = {} THEN default ELSE CHOOSE v \in param : TRUE

\* start_date/end_date of the request taken as given, not bounded by the term
HeatmapRange_unclamped(term, start_param, end_param) ==
    [start_date |-> ParamOr(start_param, term.start_date),
     end_date |-> ParamOr(end_param, term.end_date)]

\* start_date/end_date of the request, clamped to the term
HeatmapRange(term, start_param, end_param) ==
    [start_date |-> Max(ParamOr(start_param, term.start_date), term.start_date),
     end_date |-> Min(ParamOr(end_param, term.end_date), term.end_date)]

\* all_dates: every date of the range in ascending order
all_dates(start_date, end_date) ==
    [offset \in 1 .. (end_date - start_date) + 1 |-> start_date + (offset - 1)]

\* the allocations queryset: the term's rows in the selected rooms that meet
\* [aware_start, aware_end)
HeatmapAllocations(tbl, exms, term_id, rms, start_date, end_date) ==
    LET aware_start == LocalMidnight(start_date)
        aware_end == LocalMidnight(end_date + 1)
    IN  {a \in tbl : /\ exms[a.exam] = term_id
                     /\ a.room \in rms
                     /\ a.start_at < aware_end
                     /\ a.end_at > aware_start}

\* the while loop over one day only: the allocation is not split
LoopDays_first_day_only(allocation) == {date(localtime(allocation.start_at))}

\* the days the while loop visits: current_day .. final_day
LoopDays(allocation) ==
    LET local_start == localtime(allocation.start_at)
        local_end == localtime(allocation.end_at)
        inclusive_end == local_end - Resolution
    IN  date(local_start) .. date(inclusive_end)

\* the sub-interval of the allocation on current_day, in local time; it is
\* used when interval_start < interval_end
DayInterval(allocation, current_day) ==
    LET local_start == localtime(allocation.start_at)
        local_end == localtime(allocation.end_at)
        day_start == current_day * MinutesPerDay
        day_end == day_start + MinutesPerDay
    IN  [interval_start |-> Max(local_start, day_start),
         interval_end |-> Min(local_end, day_end)]

\* the allocation adds to current_day
Contributes(allocation, current_day, start_date, end_date) ==
    /\ current_day \in LoopDays(allocation)
    /\ ~(current_day < start_date \/ current_day > end_date)
    /\ DayInterval(allocation, current_day).interval_start
          < DayInterval(allocation, current_day).interval_end

\* events_by_room[room][day]: an arrival and a departure per contributing
\* allocation, in the order of the queryset
RECURSIVE DayEvents(_, _, _, _)
DayEvents(list, current_day, start_date, end_date) ==
    IF list = <<>> THEN <<>>
    ELSE LET allocation == Head(list)
             iv == DayInterval(allocation, current_day)
         IN  ( IF Contributes(allocation, current_day, start_date, end_date)
               THEN <<Event(iv.interval_start, allocation.allocated_seats),
                      Event(iv.interval_end, 0 - allocation.allocated_seats)>>
               ELSE <<>> )
             \o DayEvents(Tail(list), current_day, start_date, end_date)

\* sort_key of capacity_heatmap with the tie-break reversed
heatmap_sort_key_arrivals_first(event) ==
    <<event.timestamp, IF event.delta < 0 THEN 1 ELSE 0>>

\* sort_key of capacity_heatmap: departures before arrivals at one timestamp
heatmap_sort_key(event) ==
    <<event.timestamp, IF event.delta < 0 THEN 0 ELSE 1>>

RECURSIVE HeatmapInsert(_, _)
HeatmapInsert(e, s) ==
    IF s = <<>> THEN <<e>>
    ELSE IF KeyLess(heatmap_sort_key(e), heatmap_sort_key(Head(s))) THEN <<e>> \o s
         ELSE <<Head(s)>> \o HeatmapInsert(e, Tail(s))

\* sorted(events_by_room[room.id][day], key=sort_key)
RECURSIVE HeatmapSorted(_)
HeatmapSorted(events) ==
    IF events = <<>> THEN <<>>
    ELSE HeatmapInsert(events[Len(events)],
                       HeatmapSorted(SubSeq(events, 1, Len(events) - 1)))

\* the loop that tracks current_load and peak_load
RECURSIVE PeakLoad(_, _, _)
PeakLoad(events, current_load, peak_load) ==
    IF events = <<>> THEN peak_load
    ELSE LET load == current_load + Head(events).delta
         IN  PeakLoad(Tail(events), load, IF load > peak_load THEN load ELSE peak_load)

\* one entry of days_payload
DayPayload(list, day, start_date, end_date) ==
    LET counted == {a \in {list[i] : i \in 1 .. Len(list)} :
                       Contributes(a, day, start_date, end_date)}
    IN  [date |-> day,
         peak_allocated_seats |->
             PeakLoad(HeatmapSorted(DayEvents(list, day, start_date, end_date)), 0, 0),
         total_allocated_seats |-> SumSeats(counted),
         allocation_count |-> Cardinality(counted)]

\* Room.objects.all().order_by("name"), filtered by the room parameters
RECURSIVE RoomsByName(_)
RoomsByName(S) ==
    IF S = {} THEN <<>>
    ELSE LET first == IF "Auditorium" \in S THEN "Auditorium" ELSE CHOOSE r \in S : TRUE
         IN  <<first>> \o RoomsByName(S \ {first})

\* the response: an error for an empty range, else a payload per room with
\* a record per day
capacity_heatmap(tbl, exms, trms, rms, term_id, start_param, end_param, room_ids) ==
    LET range == HeatmapRange(trms[term_id], start_param, end_param)
        start_date == range.start_date
        end_date == range.end_date
        names == IF room_ids = {} THEN DOMAIN rms ELSE room_ids \cap DOMAIN rms
        selected == HeatmapAllocations(tbl, exms, term_id, names, start_date, end_date)
        days == all_dates(start_date, end_date)
        RoomPayload(room) ==
            LET list == OrderedRows({a \in selected : a.room = room})
            IN  [name |-> room, capacity |-> rms[room],
                 days |-> [i \in 1 .. Len(days) |->
                              DayPayload(list, days[i], start_date, end_date)]]
    IN  IF start_date > end_date
        THEN [error |-> {"start_date"}, rooms |-> <<>>]
        ELSE IF ~(room_ids \subseteq DOMAIN rms)
        THEN [error |-> {"room"}, rooms |-> <<>>]
        ELSE [error |-> {},
              rooms |-> [i \in 1 .. Cardinality(names) |->
                            RoomPayload(RoomsByName(names)[i])]]

\* GET rooms/capacity-heatmap/?term=..&start_date=..&end_date=..&room=..
HeatmapCall(term_id, start_param, end_param, room_ids) ==
    /\ ~heatmap.called
    /\ LET response == capacity_heatmap(allocations, exams, terms, rooms, term_id,
                                        start_param, end_param, room_ids)
       IN  heatmap' = [called |-> TRUE, term |-> term_id,
                       start_param |-> start_param, end_param |-> end_param,
                       room_ids |-> room_ids,
                       error |-> response.error, rooms |-> response.rooms]
    /\ UNCHANGED <<api, owners, allocations, rooms, terms, exams, blackouts, holidays, nextPk,
                   txn, lastClean, termLog, conn>>

\* two terms with an exam each; the spring term covers local days 1 to 3
HeatmapTerms == ("1403-SPR" :> Term(1, 3, TRUE)) @@ ("1403-FALL" :> Term(2, 3, TRUE))
HeatmapExams == ("MATH201" :> "1403-SPR") @@ ("PHY100" :> "1403-FALL")

\* stored rows around the local midnight between days 1 and 2 (20:30 UTC of
\* day 1): one ends at it, one starts at it, one follows back to back, one
\* runs from day 1 into day 3, one belongs to the other term, one is in the
\* other room
HeatmapRows ==
    { Row(1, "MATH201", "Auditorium", At(0, 22, 0), At(1, 20, 30), 50),
      Row(2, "MATH201", "Auditorium", At(1, 20, 30), At(1, 22, 0), 60),
      Row(3, "MATH201", "Auditorium", At(1, 22, 0), At(2, 0, 0), 50),
      Row(4, "MATH201", "Auditorium", At(1, 19, 0), At(2, 21, 0), 30),
      Row(5, "PHY100", "Auditorium", At(1, 21, 0), At(1, 23, 0), 10),
      Row(6, "MATH201", "MainHall", At(1, 8, 0), At(2, 8, 0), 60) }

\* the dates a request can name: the term's days and one day on each side
HeatmapDates == 0 .. 4
DateParams == {{}} \cup {{d} : d \in HeatmapDates}
RoomParams == SUBSET (Rooms \cup {"Annex"})

InitHeatmap ==
    /\ allocations \in {tbl \in SUBSET HeatmapRows :
                           WithinCapacity(tbl, [r \in Rooms |-> FixtureCapacity(r)])}
    /\ rooms = [r \in Rooms |-> FixtureCapacity(r)]
    /\ terms = HeatmapTerms
    /\ exams = HeatmapExams
    /\ blackouts = {}
    /\ holidays = {}
    /\ nextPk = 7
    /\ txn = [p \in Txns |-> Idle]
    /\ lastClean = NoCall
    /\ termLog = NoTermLog
    /\ heatmap = NoHeatmap
    /\ conn = [p \in Txns |-> NoOuter]
    /\ api = NoRequest
    /\ owners = [e \in DOMAIN exams |-> "staff"]

NextHeatmap ==
    \E term_id \in DOMAIN terms, start_param \in DateParams,
       end_param \in DateParams, room_ids \in RoomParams :
        HeatmapCall(term_id, start_param, end_param, room_ids)

SpecHeatmap == InitHeatmap /\ [][NextHeatmap]_vars

----------------------------------------------------------------------------
(* Properties of capacity_heatmap                                          *)

\* the instants of local day d, as UTC minutes
InstantsOfDay(d) == {t \in Grid : LocalMidnight(d) <= t /\ t < LocalMidnight(d + 1)}

\* the stored rows of the exams of the requested term
TermRows == {a \in allocations : exams[a.exam] = heatmap.term}

\* largest summed seats of the term's rows of `room` at one instant of day d
TrueMaximum(room, d) ==
    LET loads == {LoadAt(TermRows, room, t) : t \in InstantsOfDay(d)}
    IN  CHOOSE m \in loads : \A n \in loads : n <= m

\* the (room, day) pairs of the response, by position
Reported == {<<i, j>> \in (DOMAIN heatmap.rooms) \X (1 .. 5) :
                j \in DOMAIN heatmap.rooms[i].days}

\* C19: for every room and day that capacity_heatmap reports,
\* peak_allocated_seats is the brute-force maximum, over the instants of that
\* local day, of the summed seats of the term's rows of the room that cover
\* the instant; a row ending where another starts does not raise it.
C19_PeakIsTrueMaximum ==
    heatmap.called =>
        \A ij \in Reported :
            LET room == heatmap.rooms[ij[1]]
                day == room.days[ij[2]]
            IN  day.peak_allocated_seats = TrueMaximum(room.name, day.date)

\* a reported day on which one row of the room ends at the instant another
\* starts, with a third row across both
C19_Witness ==
    /\ heatmap.called
    /\ \E ij \in Reported :
          LET room == heatmap.rooms[ij[1]]
              day == room.days[ij[2]]
          IN  /\ \E a, b \in TermRows :
                    /\ a.room = room.name /\ b.room = room.name
                    /\ a.end_at = b.start_at
                    /\ a.end_at \in InstantsOfDay(day.date)
                    /\ a.start_at \in InstantsOfDay(day.date)
              /\ day.allocation_count = 3
              /\ day.peak_allocated_seats > 0
              /\ day.peak_allocated_seats < day.total_allocated_seats

\* the local interval [start, end) of a row touches local day d
Touches(a, d) ==
    /\ localtime(a.start_at) < (d + 1) * MinutesPerDay
    /\ localtime(a.end_at) > d * MinutesPerDay

\* the rows of the requested term in `room` that touch day d
Touching(room, d) == {a \in TermRows : a.room = room /\ Touches(a, d)}

\* the sub-intervals of those rows clipped to [day start, next day start)
Clipped(room, d) ==
    { <<Max(localtime(a.start_at), d * MinutesPerDay),
        Min(localtime(a.end_at), (d + 1) * MinutesPerDay),
        a.allocated_seats>> : a \in Touching(room, d) }

\* the sub-intervals that the sweep of a day is given: an arrival followed by
\* its departure
SweptIntervals(events) ==
    { <<events[k].timestamp, events[k + 1].timestamp, events[k].delta>> :
        k \in {n \in DOMAIN events : n % 2 = 1} }

\* the request as capacity_heatmap resolves it
RequestedRange == HeatmapRange(terms[heatmap.term], heatmap.start_param, heatmap.end_param)

\* C20: capacity_heatmap splits rows at local day boundaries: every reported
\* day counts exactly the term's rows of the room whose local interval
\* touches the day, adds their seats to the total, and sweeps their
\* sub-intervals clipped to the day; a row ending exactly at a local midnight
\* adds nothing to the day that begins there.
C20_SplitAtLocalDays ==
    heatmap.called =>
        \A ij \in Reported :
            LET room == heatmap.rooms[ij[1]]
                day == room.days[ij[2]]
                rows == Touching(room.name, day.date)
                events == DayEvents(OrderedRows({a \in TermRows : a.room = room.name}),
                                    day.date, RequestedRange.start_date,
                                    RequestedRange.end_date)
            IN  /\ day.allocation_count = Cardinality(rows)
                /\ day.total_allocated_seats = SumSeats(rows)
                /\ SweptIntervals(events) = Clipped(room.name, day.date)
                /\ \A a \in TermRows :
                      localtime(a.end_at) = day.date * MinutesPerDay =>
                          ~Contributes(a, day.date, RequestedRange.start_date,
                                       RequestedRange.end_date)

\* a reported day that holds the middle of a row spanning three local days,
\* while another row of the room ends at the midnight that begins the day
C20_Witness ==
    /\ heatmap.called
    /\ \E ij \in Reported :
          LET room == heatmap.rooms[ij[1]]
              day == room.days[ij[2]]
          IN  /\ \E a \in TermRows :
                    /\ a.room = room.name
                    /\ localtime(a.end_at) = day.date * MinutesPerDay
              /\ \E b \in Touching(room.name, day.date) :
                    /\ localtime(b.start_at) < day.date * MinutesPerDay
                    /\ localtime(b.end_at) > (day.date + 1) * MinutesPerDay
              /\ day.allocation_count >= 2

\* the date range of the request bounded by the term, from the request itself
ClampedFirst ==
    LET term == terms[heatmap.term]
    IN  IF heatmap.start_param = {} THEN term.start_date
        ELSE LET d == CHOOSE v \in heatmap.start_param : TRUE
             IN  IF d > term.start_date THEN d ELSE term.start_date
ClampedLast ==
    LET term == terms[heatmap.term]
    IN  IF heatmap.end_param = {} THEN term.end_date
        ELSE LET d == CHOOSE v \in heatmap.end_param : TRUE
             IN  IF d < term.end_date THEN d ELSE term.end_date

\* C21: capacity_heatmap bounds the date range by the term: every room of the
\* response carries exactly one day record for each date from
\* max(start_date, term.start_date) to min(end_date, term.end_date), in
\* ascending order and for no other date, and a request whose bounded range
\* is empty is answered with an error and no room.
C21_DaysAreTheClampedRange ==
    heatmap.called =>
        IF ClampedFirst > ClampedLast
        THEN heatmap.error # {} /\ heatmap.rooms = <<>>
        ELSE /\ heatmap.room_ids \subseteq DOMAIN rooms =>
                    /\ heatmap.error = {}
                    /\ {heatmap.rooms[i].name : i \in DOMAIN heatmap.rooms}
                          = (IF heatmap.room_ids = {} THEN DOMAIN rooms
                             ELSE heatmap.room_ids)
             /\ \A i \in DOMAIN heatmap.rooms :
                    LET days == heatmap.rooms[i].days
                    IN  /\ Len(days) = (ClampedLast - ClampedFirst) + 1
                        /\ \A j \in 1 .. Len(days) :
                              days[j].date = ClampedFirst + (j - 1)

\* a request that names a range wider than the term on both sides and is
\* answered with the term's days for two rooms
C21_Witness ==
    /\ heatmap.called
    /\ heatmap.error = {}
    /\ \E s \in heatmap.start_param : s < terms[heatmap.term].start_date
    /\ \E e \in heatmap.end_param : e > terms[heatmap.term].end_date
    /\ Len(heatmap.rooms) = 2
    /\ Len(heatmap.rooms[1].days) = 3

----------------------------------------------------------------------------
(* The REST API: permissions, allocations and exams                        *)

ADMIN_GROUP == "Admin"
SCHEDULER_GROUP == "Scheduler"
INSTRUCTOR_GROUP == "Instructor"
STUDENT_GROUP == "Student"

User(name, is_authenticated, is_superuser, groups) ==
    [name |-> name, is_authenticated |-> is_authenticated,
     is_superuser |-> is_superuser, groups |-> groups]

\* request.user of a request without credentials
AnonymousUser == User("anonymous", FALSE, FALSE, {})

\* the accounts that send requests: one per group, a second instructor, a
\* member of no group and a superuser of no group
ApiUsers ==
    { AnonymousUser,
      User("admin", TRUE, FALSE, {ADMIN_GROUP}),
      User("scheduler", TRUE, FALSE, {SCHEDULER_GROUP}),
      User("instructor", TRUE, FALSE, {INSTRUCTOR_GROUP}),
      User("lecturer", TRUE, FALSE, {INSTRUCTOR_GROUP}),
      User("student", TRUE, FALSE, {STUDENT_GROUP}),
      User("member", TRUE, FALSE, {}),
      User("root", TRUE, TRUE, {}) }

SafeMethods == {"GET", "HEAD", "OPTIONS"}

\* user_in_groups read as if a superuser were an ordinary account
user_in_groups_no_superuser(user, group_names) ==
    IF ~user.is_authenticated THEN FALSE
    ELSE user.groups \cap group_names # {}

\* user_in_groups: anonymous never, superuser always, else by membership
user_in_groups(user, group_names) ==
    IF ~user.is_authenticated THEN FALSE
    ELSE IF user.is_superuser THEN TRUE
    ELSE user.groups \cap group_names # {}

ReadOnlyForAnonymous(method, user) ==
    IF method \in SafeMethods THEN TRUE ELSE user.is_authenticated

\* GroupPermission.has_permission that lets every authenticated user write
GroupPermission_any_authenticated(method, user, allowed_groups) ==
    IF method \in SafeMethods THEN TRUE ELSE user.is_authenticated

\* GroupPermission.has_permission with the view's allowed_groups
GroupPermission(method, user, allowed_groups) ==
    IF method \in SafeMethods THEN TRUE
    ELSE user_in_groups(user, allowed_groups)

AdminSchedulerWrite(method, user) ==
    GroupPermission(method, user, {ADMIN_GROUP, SCHEDULER_GROUP})

AdminSchedulerInstructorWrite(method, user) ==
    GroupPermission(method, user, {ADMIN_GROUP, SCHEDULER_GROUP, INSTRUCTOR_GROUP})

\* APIView.permission_denied: 401 without credentials, else 403
permission_denied(user) == IF user.is_authenticated THEN 403 ELSE 401

Response(endpoint, method, user, pk, exam, payload_owner, status) ==
    [called |-> TRUE, endpoint |-> endpoint, method |-> method, user |-> user.name,
     pk |-> pk, exam |-> exam, payload_owner |-> payload_owner, status |-> status]

\* ExamAllocation.save() run alone: lock and read the overlaps, full_clean,
\* super().save(); the errors of full_clean leave the table as it was
SaveAlone(self, db, next_pk) ==
    LET locked == Attr(OrderedRows(overlap_qs(self, db.allocations)))
        errors == full_clean(self, locked, db)
        pk == IF self.pk = NoPk THEN next_pk ELSE self.pk
    IN  [errors |-> errors,
         allocations |-> IF errors = {} THEN super_save(db.allocations, [self EXCEPT !.pk = pk])
                         ELSE db.allocations]

\* ExamAllocationSerializer.is_valid(): the field validators, then validate()
\* with its instance.clean() on an unlocked read
AllocationSerializerErrors(self, db) ==
    LET field_errors == clean_fields(self)
    IN  IF field_errors # {} THEN field_errors ELSE clean(self, NoAttr, db).raised

\* a request to /api/allocations/: check_permissions, then the handler of
\* the method (list/retrieve, create, update, destroy)
AllocationRequest(user, method, self) ==
    LET allowed == /\ ReadOnlyForAnonymous(method, user)
                   /\ AdminSchedulerWrite(method, user)
        stored == \E a \in allocations : a.pk = self.pk
        invalid == AllocationSerializerErrors(self, CurrentDb)
        saved == SaveAlone(self, CurrentDb, nextPk)
        Reply(status) ==
            api' = Response("allocations", method, user, self.pk, self.exam, {}, status)
    IN  /\ \A p \in Txns : txn[p].pc = "idle"
        /\ method = "POST" <=> self.pk = NoPk
        /\ IF ~allowed
           THEN Reply(permission_denied(user)) /\ UNCHANGED <<allocations, nextPk>>
           ELSE IF method # "POST" /\ ~stored
           THEN Reply(404) /\ UNCHANGED <<allocations, nextPk>>
           ELSE IF method = "GET"
           THEN Reply(200) /\ UNCHANGED <<allocations, nextPk>>
           ELSE IF method = "DELETE"
           THEN /\ Reply(204)
                /\ allocations' = {a \in allocations : a.pk # self.pk}
                /\ UNCHANGED nextPk
           ELSE IF self.exam \notin DOMAIN exams \/ invalid # {}
           THEN Reply(400) /\ UNCHANGED <<allocations, nextPk>>
           ELSE IF saved.errors # {}
           THEN Reply(500) /\ UNCHANGED <<allocations, nextPk>>
           ELSE /\ Reply(IF method = "POST" THEN 201 ELSE 200)
                /\ allocations' = saved.allocations
                /\ nextPk' = IF method = "POST" THEN nextPk + 1 ELSE nextPk
        /\ UNCHANGED <<owners, rooms, terms, exams, blackouts, holidays, txn, lastClean,
                       termLog, heatmap, conn>>

\* ExamViewSet._is_privileged
_is_privileged(user) == user_in_groups(user, {ADMIN_GROUP, SCHEDULER_GROUP})

\* the exam fields of a payload that the model keeps: owner (optional, a set
\* of at most one user name) and term
ExamData(owner, term) == [owner |-> owner, term |-> term]

Without(f, key) == [k \in (DOMAIN f) \ {key} |-> f[k]]

\* perform_update without the ownership check
ExamOwnerGuard_absent(user, exam_id) == FALSE

\* perform_update and perform_destroy raise PermissionDenied for a user who
\* is not privileged and does not own the exam
ExamOwnerGuard(user, exam_id) ==
    ~_is_privileged(user) /\ owners[exam_id] # user.name

\* a request to /api/exams/: check_permissions, then the handler of the
\* method.  Deleting an exam deletes its allocations (on_delete=CASCADE).
ExamRequest(user, method, exam_id, data) ==
    LET allowed == /\ ReadOnlyForAnonymous(method, user)
                   /\ AdminSchedulerInstructorWrite(method, user)
        stored == exam_id \in DOMAIN exams
        Reply(status) ==
            api' = Response("exams", method, user, 0, exam_id, data.owner, status)
        same == UNCHANGED <<exams, owners, allocations>>
    IN  /\ \A p \in Txns : txn[p].pc = "idle"
        /\ method = "POST" <=> ~stored
        /\ IF ~allowed THEN Reply(permission_denied(user)) /\ same
           ELSE IF method = "GET" THEN Reply(200) /\ same
           ELSE IF method = "POST"
           THEN IF ~_is_privileged(user)
                THEN /\ Reply(201)
                     /\ exams' = (exam_id :> data.term) @@ exams
                     /\ owners' = (exam_id :> user.name) @@ owners
                     /\ UNCHANGED allocations
                ELSE IF data.owner = {} THEN Reply(500) /\ same
                ELSE /\ Reply(201)
                     /\ exams' = (exam_id :> data.term) @@ exams
                     /\ owners' = (exam_id :> (CHOOSE o \in data.owner : TRUE)) @@ owners
                     /\ UNCHANGED allocations
           ELSE IF ExamOwnerGuard(user, exam_id) THEN Reply(403) /\ same
           ELSE IF method = "DELETE"
           THEN /\ Reply(204)
                /\ exams' = Without(exams, exam_id)
                /\ owners' = Without(owners, exam_id)
                /\ allocations' = {a \in allocations : a.exam # exam_id}
           ELSE /\ Reply(200)
                /\ exams' = [exams EXCEPT ![exam_id] = data.term]
                /\ owners' = [owners EXCEPT ![exam_id] =
                                 IF data.owner = {} THEN @
                                 ELSE CHOOSE o \in data.owner : TRUE]
                /\ UNCHANGED allocations
        /\ UNCHANGED <<rooms, terms, blackouts, holidays, nextPk, txn, lastClean,
                       termLog, heatmap, conn>>

ApiMethods == {"GET", "POST", "PUT", "DELETE"}
ApiIntervals == {<<At(1, 8, 0), At(1, 10, 0)>>}
ApiSeats == {50, 60}
\* the stored exam and the one that requests create
ApiExams == {"MATH201", "CHEM200"}
ExamPayloads == {ExamData(owner, "1403-SPR") : owner \in {{}, {"lecturer"}}}

InitApi ==
    /\ allocations = {}
    /\ rooms = [r \in Rooms |-> FixtureCapacity(r)]
    /\ terms = [t \in TermIds |-> FixtureTerm]
    /\ exams = [e \in ExamIds |-> "1403-SPR"]
    /\ blackouts = {}
    /\ holidays = {}
    /\ nextPk = 1
    /\ txn = [p \in Txns |-> Idle]
    /\ lastClean = NoCall
    /\ termLog = NoTermLog
    /\ heatmap = NoHeatmap
    /\ conn = [p \in Txns |-> NoOuter]
    /\ api = NoRequest
    /\ owners = [e \in ExamIds |-> "lecturer"]

NextApi ==
    \/ \E user \in ApiUsers, method \in ApiMethods :
         \E self \in Candidates(0 .. MaxAllocs, {"Auditorium"}, ApiIntervals, ApiSeats) :
            SequenceLeft(self) /\ AllocationRequest(user, method, self)
    \/ \E user \in ApiUsers, method \in ApiMethods :
         \E exam_id \in ApiExams, data \in ExamPayloads :
            ExamRequest(user, method, exam_id, data)

SpecApi == InitApi /\ [][NextApi]_vars

\* C22: a create, update or delete request to the allocations endpoint from
\* an unauthenticated user, or from an authenticated user who is in neither
\* the Admin nor the Scheduler group and is not a superuser, is answered 401
\* or 403 and leaves the allocation table as it was; a GET request is never
\* refused, whoever sends it.
C22_AllocationWritesNeedRole ==
    [][ (api'.called /\ api'.endpoint = "allocations") =>
          LET user == CHOOSE u \in ApiUsers : u.name = api'.user
              unprivileged ==
                  \/ ~user.is_authenticated
                  \/ /\ user.groups \cap {ADMIN_GROUP, SCHEDULER_GROUP} = {}
                     /\ ~user.is_superuser
          IN  /\ (api'.method # "GET" /\ unprivileged) =>
                    /\ api'.status \in {401, 403}
                    /\ allocations' = allocations
                    /\ nextPk' = nextPk
              /\ api'.method = "GET" => api'.status \notin {401, 403}
      ]_vars

\* a member of no group was refused the deletion of a stored allocation
C22_Witness ==
    /\ api.called /\ api.endpoint = "allocations"
    /\ api.user = "member" /\ api.method = "DELETE"
    /\ api.status = 403
    /\ \E a \in allocations : a.pk = api.pk

\* the sender of the request of this step is authenticated and in neither
\* the Admin nor the Scheduler group
NeitherAdminNorScheduler(user) ==
    user.is_authenticated /\ user.groups \cap {ADMIN_GROUP, SCHEDULER_GROUP} = {}

\* what C23 says of one request to the exams endpoint by `user`
OwnershipKept(user) ==
    /\ (api'.method = "POST" /\ api'.status = 201) =>
          owners'[api'.exam] = user.name
    /\ ( /\ api'.method \in {"PUT", "DELETE"}
         /\ api'.exam \in DOMAIN owners
         /\ owners[api'.exam] # user.name ) =>
          /\ api'.status = 403
          /\ exams' = exams /\ owners' = owners /\ allocations' = allocations

OverlapSet(self, tbl) ==
    {a \in Others(self, tbl) : /\ a.room = self.room
                               /\ a.start_at < self.end_at
                               /\ a.end_at > self.start_at}

\* C24: in the sweep a departure is applied before an arrival of the same
\* timestamp, also between two stored rows: when the overlap set of a
\* candidate C is a row A [t0,T) and a row B [T,t1), the capacity check
\* accepts C exactly when C.seats + A.seats <= capacity and
\* C.seats + B.seats <= capacity, even if the three together exceed it.
C24_DeparturesFirstAmongStored ==
    (lastClean.called /\ "capacity" \in {lastClean.evaluated[i] :
                                            i \in DOMAIN lastClean.evaluated}) =>
        LET C == lastClean.self
            cap == rooms[C.room]
        IN  \A A, B \in allocations :
               ( /\ OverlapSet(C, allocations) = {A, B}
                 /\ A.end_at = B.start_at ) =>
                  ( (CapacityViolation \notin lastClean.raised)
                      <=> ( /\ C.allocated_seats + A.allocated_seats <= cap
                            /\ C.allocated_seats + B.allocated_seats <= cap ) )

\* A [08:00,10:00) and B [10:00,11:00), 50 seats each in the room of 100
\* seats; C with 50 seats across 10:00 is accepted although the three sum to
\* 150
C24_Witness ==
    /\ lastClean.called
    /\ lastClean.raised = {}
    /\ lastClean.evaluated = CheckNames
    /\ \E A, B \in allocations :
          /\ OverlapSet(lastClean.self, allocations) = {A, B}
          /\ A.end_at = B.start_at
          /\ lastClean.self.allocated_seats + A.allocated_seats + B.allocated_seats
                > rooms[A.room]

----------------------------------------------------------------------------
(* A create or update request: the serializer validates, then save()       *)

\* serializer.is_valid(): validate() builds the instance and calls clean(),
\* which reads the overlaps without a lock; on errors the request ends with
\* 400 and save() is never entered (pc "invalid")
SerializerValidate(p, self) ==
    /\ txn[p].pc = "idle"
    /\ self.pk = NoPk \/ \E a \in allocations : a.pk = self.pk
    /\ LET errors == AllocationSerializerErrors(self, CurrentDb)
       IN  txn' = [txn EXCEPT ![p] =
                     IF errors = {}
                     THEN [pc |-> "validated", self |-> self, locked |-> NoAttr,
                           errors |-> {}]
                     ELSE [pc |-> "invalid", self |-> self, locked |-> NoAttr,
                           errors |-> errors]]
    /\ UNCHANGED <<api, owners, allocations, rooms, terms, exams, blackouts, holidays,
                   nextPk, lastClean, termLog, heatmap, conn>>

\* perform_create/perform_update: serializer.save() calls instance.save(),
\* which opens its atomic block
SerializerSave(p) ==
    /\ txn[p].pc = "validated"
    /\ txn' = [txn EXCEPT ![p].pc = "atomic"]
    /\ UNCHANGED <<api, owners, allocations, rooms, terms, exams, blackouts, holidays,
                   nextPk, lastClean, termLog, heatmap, conn>>

\* two requests, one per writer, on a table that sequential saves can have
\* built; both book the Auditorium in the morning of day 1
RequestIntervals ==
    { <<At(1, 8, 0), At(1, 10, 0)>>, <<At(1, 9, 0), At(1, 10, 0)>> }

NextRequest ==
    \/ \E p \in Txns :
         \E self \in Candidates({NoPk, 1}, {"Auditorium"},
                                RequestIntervals, SaveSeats) :
            SerializerValidate(p, self)
    \/ \E p \in Txns : SerializerSave(p)
    \/ \E p \in Txns : LockOverlaps(p)
    \/ \E p \in Txns : FullClean(p)
    \/ \E p \in Txns : Write(p)

SpecRequest == InitOnce /\ [][NextRequest]_vars

\* writer p runs full_clean() in this step
Validates(p) == txn[p].pc = "locked" /\ txn'[p].pc \in {"valid", "done"}

\* C25: inside save() the capacity check decides over exactly the overlap set
\* that save() read and locked, whatever the table holds by then; a row is
\* written only by a writer whose pipeline passed against its locked set, in
\* the step that ends its transaction; and the serializer's clean() on an
\* unlocked read writes nothing by itself.
C25_ValidatesLockedSetOnly ==
    [][ /\ \A p \in Txns :
             Validates(p) =>
                LET self == txn[p].self
                    over == Overflows(self, RowsOf(txn[p].locked), rooms[self.room])
                IN  /\ txn[p].locked.present
                    /\ (CapacityViolation \in txn'[p].errors) <=> over
                    /\ (txn'[p].pc = "valid") <=> ~over
        /\ allocations' # allocations =>
             \E p \in Txns :
                /\ txn[p].pc = "valid" /\ txn'[p].pc = "done"
                /\ txn[p].locked.present
                /\ ~Overflows(txn[p].self, RowsOf(txn[p].locked), rooms[txn[p].self.room])
                /\ allocations' = super_save(allocations, txn'[p].self)
        /\ \A p \in Txns :
             (txn[p].pc \in {"idle", "validated"} /\ txn'[p] # txn[p]) =>
                /\ allocations' = allocations
                /\ txn'[p].pc \in {"validated", "atomic", "invalid"}
      ]_vars

\* a request passed the serializer's clean(), and its save() then rejected
\* it for capacity over the rows it locked: nothing of it was written
C25_Witness ==
    \E p \in Txns :
        /\ txn[p].pc = "done"
        /\ txn[p].errors = {CapacityViolation}
        /\ txn[p].self.pk = NoPk
        /\ \A a \in allocations :
              [a EXCEPT !.pk = NoPk] = txn[p].self => \E q \in Txns \ {p} : txn[q].self = a

----------------------------------------------------------------------------
(* Edits of rooms, terms, exams and blackout windows beside stored         *)
(* allocations                                                             *)

\* a request to /api/rooms/{id}/ that sets the capacity: check_permissions,
\* the MinValueValidator(1) of the field, then the row is saved
RoomRequest(user, method, room, capacity) ==
    LET allowed == /\ ReadOnlyForAnonymous(method, user)
                   /\ AdminSchedulerWrite(method, user)
        Reply(status) == api' = Response("rooms", method, user, 0, room, {}, status)
    IN  /\ \A p \in Txns : txn[p].pc = "idle"
        /\ IF ~allowed THEN Reply(permission_denied(user)) /\ UNCHANGED rooms
           ELSE IF method = "GET" THEN Reply(200) /\ UNCHANGED rooms
           ELSE IF capacity < 1 THEN Reply(400) /\ UNCHANGED rooms
           ELSE Reply(200) /\ rooms' = [rooms EXCEPT ![room] = capacity]
        /\ UNCHANGED <<owners, allocations, terms, exams, blackouts, holidays, nextPk,
                       txn, lastClean, termLog, heatmap, conn>>

\* a request to /api/blackouts/: POST stores the window, PUT replaces a
\* stored window by the submitted one, DELETE removes it; the database
\* refuses a window that breaks blackoutwindow_start_before_end
BlackoutRequest(user, method, stored, window) ==
    LET allowed == /\ ReadOnlyForAnonymous(method, user)
                   /\ AdminSchedulerWrite(method, user)
        Reply(status) ==
            api' = Response("blackouts", method, user, 0, "", {}, status)
    IN  /\ \A p \in Txns : txn[p].pc = "idle"
        /\ method # "POST" => stored \in blackouts
        /\ IF ~allowed THEN Reply(permission_denied(user)) /\ UNCHANGED blackouts
           ELSE IF method = "GET" THEN Reply(200) /\ UNCHANGED blackouts
           ELSE IF method = "DELETE"
           THEN Reply(204) /\ blackouts' = blackouts \ {stored}
           ELSE IF ~(window.start_at < window.end_at)
           THEN Reply(500) /\ UNCHANGED blackouts
           ELSE IF method = "POST"
           THEN Reply(201) /\ blackouts' = blackouts \cup {window}
           ELSE Reply(200) /\ blackouts' = (blackouts \ {stored}) \cup {window}
        /\ UNCHANGED <<owners, allocations, rooms, terms, exams, holidays, nextPk,
                       txn, lastClean, termLog, heatmap, conn>>

\* the spring term (days 1 and 2) and the fall term (day 2), both drafts
EditTerms ==
    ("1403-SPR" :> TermRow("Spring 1403", "1403-SPR", 1, 2, FALSE))
    @@ ("1403-FALL" :> TermRow("Fall 1403", "1403-FALL", 2, 2, FALSE))

\* one slot in the morning of day 1
EditIntervals == {<<At(1, 8, 0), At(1, 10, 0)>>}
EditSeats == {50}
EditCapacities == {0, 40, 100}
EditWindows ==
    { Blackout(NoRoom, At(1, 9, 0), At(1, 12, 0)),
      Blackout("Auditorium", At(1, 10, 0), At(1, 12, 0)),
      Blackout("Auditorium", At(1, 12, 0), At(1, 9, 0)) }
\* a PATCH of one date of a term
EditAttrs == { (f :> d) : f \in {"start_date", "end_date"}, d \in TermDates }
EditMethods == {"POST", "PUT", "DELETE"}
\* the edits are sent by the admin account
Staff == {u \in ApiUsers : u.name = "admin"}

InitEdit ==
    /\ allocations = {}
    /\ rooms = [r \in Rooms |-> FixtureCapacity(r)]
    /\ terms = EditTerms
    /\ exams = [e \in ExamIds |-> "1403-SPR"]
    /\ blackouts = {}
    /\ holidays = {}
    /\ nextPk = 1
    /\ txn = [p \in Txns |-> Idle]
    /\ lastClean = NoCall
    /\ termLog = NoTermLog
    /\ heatmap = NoHeatmap
    /\ conn = [p \in Txns |-> NoOuter]
    /\ api = NoRequest
    /\ owners = [e \in ExamIds |-> "lecturer"]

NextEdit ==
    \/ \E user \in Staff, method \in EditMethods :
         \E self \in Candidates(0 .. MaxAllocs, {"Auditorium"}, EditIntervals, EditSeats) :
            SequenceLeft(self) /\ AllocationRequest(user, method, self)
    \/ \E user \in Staff, capacity \in EditCapacities :
         RoomRequest(user, "PUT", "Auditorium", capacity)
    \/ \E user \in Staff, method \in {"POST", "PUT"} :
         \E stored \in EditWindows, window \in EditWindows :
            BlackoutRequest(user, method, stored, window)
    \/ \E attrs \in EditAttrs : TermSerializerUpdate("1403-SPR", attrs)
    \/ \E user \in Staff, term \in DOMAIN EditTerms :
         ExamRequest(user, "PUT", "MATH201", ExamData({}, term))

SpecEdit == InitEdit /\ [][NextEdit]_vars

\* C26: after every Room update, the summed seats of the stored rows of a
\* room at any instant are at most the room's current capacity.
C26_CapacitySurvivesRoomEdits ==
    (api.called /\ api.endpoint = "rooms") =>
        \A room \in DOMAIN rooms : \A t \in Grid :
            LoadAt(allocations, room, t) <= rooms[room]

\* C27: every stored row lies inside the window of the term of its exam:
\* its local start date is not before term.start_date and the local date
\* of its last instant is not after term.end_date.
C27_StoredRowsInsideTermWindow ==
    \A a \in allocations :
        LET term == terms[exams[a.exam]]
        IN  /\ date(localtime(a.start_at)) >= term.start_date
            /\ date(localtime(a.end_at) - Resolution) <= term.end_date

\* C28: no stored row strictly overlaps a blackout window of its room or of
\* no room.
C28_NoStoredRowInBlackout ==
    \A a \in allocations : \A b \in blackouts :
        b.room \in {a.room, NoRoom} =>
            (b.end_at <= a.start_at \/ a.end_at <= b.start_at)

----------------------------------------------------------------------------
(* capacity_heatmap over a table built by concurrent save() calls          *)

\* two writers book the Auditorium, then the heatmap of the term is asked
NextBooked ==
    \/ \E p \in Txns :
         \E self \in Candidates({NoPk}, {"Auditorium"}, RequestIntervals, SaveSeats) :
            SaveBegin(p, self)
    \/ \E p \in Txns : LockOverlaps(p)
    \/ \E p \in Txns : FullClean(p)
    \/ \E p \in Txns : Write(p)
    \/ \E start_param \in {{}, {1}}, room_ids \in {{}, {"Auditorium"}} :
         HeatmapCall("1403-SPR", start_param, {}, room_ids)

SpecBooked == InitOnce /\ [][NextBooked]_vars

\* C29: for every room and day that capacity_heatmap reports,
\* peak_allocated_seats is at most the capacity of the room and at most
\* total_allocated_seats, and allocation_count is 0 exactly when the peak is
\* 0.  Every row of the table was stored by save() or is one of the seeded
\* rows, which sequential saves accept.
C29_HeatmapWithinCapacity ==
    heatmap.called =>
        \A ij \in Reported :
            LET room == heatmap.rooms[ij[1]]
                day == room.days[ij[2]]
            IN  /\ day.peak_allocated_seats <= room.capacity
                /\ day.peak_allocated_seats <= day.total_allocated_seats
                /\ (day.allocation_count = 0) <=> (day.peak_allocated_seats = 0)

\* the part of C29 that does not depend on the capacity
HeatmapPeakWithinTotal ==
    heatmap.called =>
        \A ij \in Reported :
            LET day == heatmap.rooms[ij[1]].days[ij[2]]
            IN  /\ day.peak_allocated_seats <= day.total_allocated_seats
                /\ (day.allocation_count = 0) <=> (day.peak_allocated_seats = 0)

----------------------------------------------------------------------------
(* Waiting for row locks                                                   *)

\* the rows of the overlap query that writer p has not locked yet
Unlocked(p) ==
    {a \in overlap_qs(txn[p].self, allocations) : a.pk \notin LockedBy(p)}

\* the rows the query locks next: it runs in Meta.ordering ("start_at",),
\* rows of equal start_at come in any order
NextRows(p) == {a \in Unlocked(p) : \A b \in Unlocked(p) : a.start_at <= b.start_at}

\* the rows writer p is waiting for: the next rows of its locking read, or
\* its own row when it is about to UPDATE it
Wanted(p) ==
    IF txn[p].pc \in {"atomic", "locking"} THEN {a.pk : a \in NextRows(p)}
    ELSE IF txn[p].pc = "valid" /\ txn[p].self.pk # NoPk THEN {txn[p].self.pk}
    ELSE {}

\* p cannot go on: every row it wants is locked by another writer
Blocked_(p) == Wanted(p) # {} /\ Wanted(p) \subseteq LockedByOthers(p)

Blockers(p) == {q \in Txns \ {p} : Wanted(p) \cap LockedBy(q) # {}}

\* a store that never detects a deadlock
Deadlocked_never(p) == FALSE

\* p is in a set of writers that all wait for locks held inside the set
Deadlocked(p) ==
    \E S \in SUBSET Txns :
        /\ p \in S
        /\ \A q \in S : Blocked_(q) /\ Blockers(q) \subseteq S

\* SELECT ... FOR UPDATE locks the rows one after the other: the next row,
\* when no other writer holds it
LockRow(p) ==
    /\ txn[p].pc \in {"atomic", "locking"}
    /\ \E a \in NextRows(p) :
          /\ a.pk \notin LockedByOthers(p)
          /\ txn' = [txn EXCEPT ![p].pc = "locking",
                                ![p].locked = Attr(Append(txn[p].locked.rows, a))]
    /\ UNCHANGED <<api, owners, allocations, rooms, terms, exams, blackouts, holidays,
                   nextPk, lastClean, termLog, heatmap, conn>>

\* every row of the query is locked: list(overlap_qs) returns and
\* _locked_overlaps is set
LockedAll(p) ==
    /\ txn[p].pc \in {"atomic", "locking"}
    /\ Unlocked(p) = {}
    /\ txn' = [txn EXCEPT ![p].pc = "locked",
                          ![p].locked = Attr(OrderedRows(overlap_qs(txn[p].self,
                                                                    allocations)))]
    /\ UNCHANGED <<api, owners, allocations, rooms, terms, exams, blackouts, holidays,
                   nextPk, lastClean, termLog, heatmap, conn>>

\* the store breaks a deadlock: the statement of one waiting writer raises a
\* database error, its atomic block rolls back and its locks go
DeadlockAbort(p) ==
    /\ Deadlocked(p)
    /\ txn' = [txn EXCEPT ![p] =
                 finally([@ EXCEPT !.pc = "done", !.errors = {StorageError}])]
    /\ UNCHANGED <<api, owners, allocations, rooms, terms, exams, blackouts, holidays,
                   nextPk, lastClean, termLog, heatmap, conn>>

LiveIntervals == {<<At(1, 8, 0), At(1, 10, 0)>>}
LiveSeats == {50}

NextLive ==
    \/ \E p \in Txns :
         \E self \in Candidates({NoPk, 1, 2}, {"Auditorium"}, LiveIntervals, LiveSeats) :
            SaveBegin(p, self)
    \/ \E p \in Txns : LockRow(p)
    \/ \E p \in Txns : LockedAll(p)
    \/ \E p \in Txns : FullClean(p)
    \/ \E p \in Txns : Write(p)
    \/ \E p \in Txns : DeadlockAbort(p)

\* the steps of one writer inside save() other than full_clean(); whether
\* and when save() is called is up to the client
WaitOrWrite(p) == LockRow(p) \/ LockedAll(p) \/ Write(p) \/ DeadlockAbort(p)

\* weak fairness of every step of save().  The second disjunction is
\* WF_vars(FullClean(p)) written out: FullClean(p) is enabled exactly when
\* pc = "locked", and it always changes pc.
Fairness ==
    \A p \in Txns :
        /\ WF_vars(WaitOrWrite(p))
        /\ ([]<>(txn[p].pc # "locked")) \/ ([]<><<FullClean(p)>>_vars)

SpecLive == InitOnce /\ [][NextLive]_vars /\ Fairness

\* C30: every save() that was entered ends, with a commit, a validation
\* error or a storage error; writers that hold locks the others wait for do
\* not wait forever.
C30_SaveTerminates ==
    \A p \in Txns : (txn[p].pc # "idle") ~> (txn[p].pc = "done")

\* two writers waited for each other: one ended with a storage error, the
\* other went on and committed
C30_Witness ==
    \E p, q \in Txns :
        /\ txn[p].pc = "done" /\ txn[p].errors = {StorageError}
        /\ txn[q].pc = "done" /\ txn[q].errors = {}
        /\ txn[q].self \in allocations

====
